---- MODULE Spec2Model ----
(***************************************************************************)
(* Instance lifecycle manager of the Cursor automation server              *)
(* (src/src/managers/CursorInstanceManager.ts) as a state machine.         *)
(*                                                                         *)
(* The program runs on one event loop: every action below is one callback  *)
(* (one macrotask together with the promise continuations it triggers),    *)
(* taken from the code between two suspension points.                      *)
(*                                                                         *)
(* Instance ids (uuids) are the naturals 1, 2, ...; 0 stands for an id     *)
(* that fails validateInstanceId.  The process id of instance i is i, and  *)
(* a WindowInfo is reduced to its processId (0: undefined).                *)
(* The outcome of a create() promise is handed to the caller, not kept by  *)
(* the program: the model keeps only pending/settled and reports what the  *)
(* last callback did in the variable ev.                                   *)
(***************************************************************************)
EXTENDS Naturals, FiniteSets, Sequences, TLC

\* ------------------------------------------------------------- bounds
\* create() calls that spawn a process (instances 1..MaxIds)
MaxIds == 1
\* captured stderr is followed up to this many characters (all instances together)
MaxErrLen == 600

\* --------------------------------------------------- program constants
MAX_INSTANCES == 10
maxAttempts == 10
StderrCap == 500
MAX_RETRIES == 3
TextLen == 22

Ids == 1..MaxIds
\* the MAX_INSTANCES instances that fill the map when SpecLimit starts
Ballast == (MaxIds + 1)..(MaxIds + MAX_INSTANCES)
AllIds == 1..(MaxIds + MAX_INSTANCES)
\* the one of them that callers and its process act on
Old == MaxIds + 1

\* lengths of the stderr chunks the child process may write
ChunkLens == {300, 600}
StderrKinds == {"plain", "missingModule", "missingModuleNoName"}
ExitCodes == {"0", "1", "null"}
WorkspacePaths == {"undefined", "valid", "rejected"}

VARIABLES
    inst,       \* id -> the instance object with its process and closure state
    instances,  \* keys of this.instances (the map holds inst[id] under id)
    cmd,        \* the sendKeyToInstance/openCommandPalette/openClineTab call in progress
    ev,         \* what the last callback did (calls made, values returned)
    retry,      \* a WindowsApiService.withRetry call: its loop and closure state
    race,       \* a WindowsApiService.withTimeout call: operation, timer, outcome
    wm,         \* a window manager call in progress and what it did
    desk,       \* the desktop: the window of each process and the focus owner
    call,       \* a call of a validator: its input and what it returned or threw
    kb          \* the keyboard, the input service and the sendKeys calls in progress

vars == <<inst, instances, cmd, ev, retry, race, wm, desk, call, kb>>

\* the state outside the instance manager
others == <<retry, race, wm, desk, call, kb>>

Min(a, b) == IF a < b THEN a ELSE b

NoInst ==
    [proc |-> "none", killed |-> FALSE, isActive |-> FALSE, window |-> 0,
     promise |-> "none", attempts |-> 0, poll |-> "none",
     killTimer |-> "none", errLen |-> 0]

\* the record of an instance whose create() returned and that was left alone
Settled(id) ==
    [proc |-> "running", killed |-> FALSE, isActive |-> TRUE, window |-> id,
     promise |-> "settled", attempts |-> 0, poll |-> "stopped",
     killTimer |-> "none", errLen |-> 0]

NoEv ==
    [op |-> "init", id |-> 0, ret |-> "-", settle |-> "none", msg |-> "-",
     code |-> "-", n |-> 0, sent |-> {}, invoked |-> FALSE, calls |-> <<>>,
     log |-> <<>>]

NoCmd ==
    [op |-> "none", id |-> 0, platform |-> "-", phase |-> "-", idx |-> 0,
     tries |-> 0, log |-> <<>>]

\* no withRetry call, no withTimeout call, no window manager call, empty desktop
NoRetry ==
    [phase |-> "idle", attempt |-> 0, calls |-> 0, fails |-> 0, title |-> "",
     requireFocus |-> FALSE, lastError |-> "-", errorAt |-> 0, delays |-> 0,
     ret |-> "-"]

NoRace == [op |-> "none", timer |-> "none", outcome |-> "none", late |-> 0]

\* bound: processes that may own a window on the desktop
MaxPids == 2

Pids == 1..MaxPids

NoHandle == [id |-> 0, title |-> <<>>, processId |-> 0]

NoWm ==
    [op |-> "none", platform |-> "-", handle |-> NoHandle, phase |-> "idle",
     chords |-> 0, queried |-> FALSE, seen |-> 0, ret |-> "-", threw |-> FALSE,
     error |-> "-", scripts |-> <<>>]

\* a closed window; no window has the focus
NoWindow == [open |-> FALSE, title |-> <<>>]

NoDesk == [win |-> [p \in Pids |-> NoWindow], active |-> 0]

\* no validator call
NoCall == [op |-> "none", phase |-> "idle"]

\* no key is held, no sendKeys call was made
NoKb == [op |-> "none"]

Ev(op, id) == [NoEv EXCEPT !.op = op, !.id = id]

validateInstanceId(id) == id # 0

\* ChildProcess.kill(signal): delivers the signal and sets killed when the
\* process is running; returns false and changes nothing otherwise.
Kill(r) == IF r.proc = "running" THEN [r EXCEPT !.killed = TRUE] ELSE r

KillSent(id, r, sig) == IF r.proc = "running" THEN {<<id, sig>>} ELSE {}

\* reject(...) reaching create()'s catch block while the promise is pending
CatchCreate(r) ==
    IF r.promise = "pending"
    THEN [r EXCEPT !.promise = "settled", !.isActive = FALSE]
    ELSE r

Init ==
    /\ inst = [i \in AllIds |-> NoInst]
    /\ instances = {}
    /\ cmd = NoCmd
    /\ ev = NoEv
    /\ retry = NoRetry
    /\ race = NoRace
    /\ wm = NoWm
    /\ desk = NoDesk
    /\ call = NoCall
    /\ kb = NoKb

\* the program after MAX_INSTANCES calls of create() have returned
InitLimit ==
    /\ inst = [i \in AllIds |-> IF i \in Ballast THEN Settled(i) ELSE NoInst]
    /\ instances = Ballast
    /\ cmd = NoCmd
    /\ ev = NoEv
    /\ retry = NoRetry
    /\ race = NoRace
    /\ wm = NoWm
    /\ desk = NoDesk
    /\ call = NoCall
    /\ kb = NoKb

\* the limit test with > in place of >=
LimitReached_offByOne == Cardinality(instances) > MAX_INSTANCES

LimitReached == Cardinality(instances) >= MAX_INSTANCES

Fresh(S) == {i \in S : inst[i].proc = "none"}

NewId(S) == CHOOSE i \in Fresh(S) : \A j \in Fresh(S) : i <= j

\* create(): instance limit reached
CreateLimit ==
    /\ LimitReached
    /\ ev' = [Ev("create", 0) EXCEPT !.settle = "rejected", !.msg = "limit"]
    /\ UNCHANGED <<inst, instances, cmd, others>>

\* create(): validateWorkspacePath or getCursorExecutablePath throws
CreateInvalid(wp, exeFound) ==
    /\ ~LimitReached
    /\ wp = "rejected" \/ ~exeFound
    /\ ev' = [Ev("create", 0) EXCEPT
                !.settle = "rejected",
                !.msg = IF wp = "rejected" THEN "invalidPath" ELSE "noExecutable"]
    /\ UNCHANGED <<inst, instances, cmd, others>>

\* create(): the process is spawned, the instance registered, the handlers
\* installed and the first findWindowByProcessId started
CreateSpawn(S, wp) ==
    /\ ~LimitReached
    /\ wp # "rejected"
    /\ Fresh(S) # {}
    /\ LET id == NewId(S) IN
        /\ inst' = [inst EXCEPT ![id] =
                      [NoInst EXCEPT !.proc = "running", !.isActive = TRUE,
                                     !.promise = "pending", !.poll = "inflight"]]
        /\ instances' = instances \cup {id}
        /\ ev' = [Ev("create", id) EXCEPT !.ret = "spawned"]
    /\ UNCHANGED <<cmd, others>>

\* the 'error' handler alone, without the catch block that deletes the entry
CreateSpawnError_keepsEntry(S, wp) ==
    /\ ~LimitReached
    /\ wp # "rejected"
    /\ Fresh(S) # {}
    /\ LET id == NewId(S) IN
        /\ inst' = [inst EXCEPT ![id] =
                      [NoInst EXCEPT !.proc = "failed", !.promise = "settled",
                                     !.poll = "inflight"]]
        /\ instances' = instances \cup {id}
        /\ ev' = [Ev("create", id) EXCEPT !.settle = "rejected",
                                          !.msg = "spawnError"]
    /\ UNCHANGED <<cmd, others>>

\* create() when spawn fails: the 'error' event is emitted on the next tick,
\* before any other callback; its reject reaches the catch block at once
CreateSpawnError(S, wp) ==
    /\ ~LimitReached
    /\ wp # "rejected"
    /\ Fresh(S) # {}
    /\ LET id == NewId(S) IN
        /\ inst' = [inst EXCEPT ![id] =
                      [NoInst EXCEPT !.proc = "failed", !.promise = "settled",
                                     !.poll = "inflight"]]
        /\ instances' = instances
        /\ ev' = [Ev("create", id) EXCEPT !.settle = "rejected",
                                          !.msg = "spawnError"]
    /\ UNCHANGED <<cmd, others>>

\* checkWindow: findWindowByProcessId returns the window
PollFound(id) ==
    /\ inst[id].poll = "inflight"
    /\ inst[id].proc = "running"
    /\ LET r == inst[id] IN
        /\ inst' = [inst EXCEPT ![id] =
                      [r EXCEPT !.poll = "stopped", !.attempts = 0,
                                !.promise = IF r.promise = "pending" THEN "settled" ELSE @,
                                !.window = IF r.promise = "pending" THEN id ELSE @]]
        /\ ev' = [Ev("pollFound", id) EXCEPT
                    !.settle = IF r.promise = "pending" THEN "resolved" ELSE "none"]
    /\ UNCHANGED <<instances, cmd, others>>

\* checkWindow that gives up only when attempts exceeds maxAttempts
PollMiss_extraAttempt(id) ==
    /\ inst[id].poll = "inflight"
    /\ LET r == inst[id]
           last == r.attempts + 1 > maxAttempts
           pending == r.promise = "pending"
       IN
        /\ inst' = [inst EXCEPT ![id] =
                      IF last
                      THEN [CatchCreate(r) EXCEPT !.poll = "stopped", !.attempts = 0]
                      ELSE [r EXCEPT !.poll = "timer", !.attempts = r.attempts + 1]]
        /\ instances' = IF last /\ pending THEN instances \ {id} ELSE instances
        /\ ev' = [Ev("pollMiss", id) EXCEPT
                    !.settle = IF last /\ pending THEN "rejected" ELSE "none",
                    !.msg = IF last /\ pending THEN "maxAttempts" ELSE "-",
                    !.n = r.attempts + 1]
    /\ UNCHANGED <<cmd, others>>

\* checkWindow: findWindowByProcessId throws WindowNotFoundError
PollMiss(id) ==
    /\ inst[id].poll = "inflight"
    /\ LET r == inst[id]
           last == r.attempts + 1 >= maxAttempts
           pending == r.promise = "pending"
       IN
        /\ inst' = [inst EXCEPT ![id] =
                      IF last
                      THEN [CatchCreate(r) EXCEPT !.poll = "stopped", !.attempts = 0]
                      ELSE [r EXCEPT !.poll = "timer", !.attempts = r.attempts + 1]]
        /\ instances' = IF last /\ pending THEN instances \ {id} ELSE instances
        /\ ev' = [Ev("pollMiss", id) EXCEPT
                    !.settle = IF last /\ pending THEN "rejected" ELSE "none",
                    !.msg = IF last /\ pending THEN "maxAttempts" ELSE "-",
                    !.n = r.attempts + 1]
    /\ UNCHANGED <<cmd, others>>

\* checkWindow called by its timer
CheckWindow(id) ==
    /\ inst[id].poll = "timer"
    /\ inst' = [inst EXCEPT ![id] =
                  IF ~inst[id].isActive
                  THEN [@ EXCEPT !.poll = "stopped", !.attempts = 0]
                  ELSE [@ EXCEPT !.poll = "inflight"]]
    /\ ev' = Ev("checkWindow", id)
    /\ UNCHANGED <<instances, cmd, others>>

\* the 'exit' handler without this.instances.delete(id)
ProcExit_keepsEntry(id, code) ==
    /\ inst[id].proc = "running"
    /\ LET r == inst[id]
           pending == r.promise = "pending"
       IN
        /\ inst' = [inst EXCEPT ![id] =
                      CatchCreate([r EXCEPT !.proc = "exited", !.isActive = FALSE])]
        /\ instances' = IF pending THEN instances \ {id} ELSE instances
        /\ ev' = [Ev("exit", id) EXCEPT
                    !.code = code,
                    !.settle = IF pending THEN "rejected" ELSE "none",
                    !.msg = IF ~pending THEN "-"
                            ELSE IF code = "0" THEN "exitNoWindow" ELSE "exitCode",
                    !.n = IF pending /\ code # "0" THEN Min(r.errLen, StderrCap) ELSE 0]
    /\ UNCHANGED <<cmd, others>>

\* the process 'exit' handler
ProcExit(id, code) ==
    /\ inst[id].proc = "running"
    /\ LET r == inst[id]
           pending == r.promise = "pending"
       IN
        /\ inst' = [inst EXCEPT ![id] =
                      CatchCreate([r EXCEPT !.proc = "exited", !.isActive = FALSE])]
        /\ instances' = instances \ {id}
        /\ ev' = [Ev("exit", id) EXCEPT
                    !.code = code,
                    !.settle = IF pending THEN "rejected" ELSE "none",
                    !.msg = IF ~pending THEN "-"
                            ELSE IF code = "0" THEN "exitNoWindow" ELSE "exitCode",
                    !.n = IF pending /\ code # "0" THEN Min(r.errLen, StderrCap) ELSE 0]
    /\ UNCHANGED <<cmd, others>>

RECURSIVE Captured(_)
\* characters of stderr captured so far by the instances in S
Captured(S) ==
    IF S = {} THEN 0
    ELSE LET i == CHOOSE j \in S : TRUE IN inst[i].errLen + Captured(S \ {i})

\* the stderr 'data' handler
Stderr(id, kind, len) ==
    /\ inst[id].proc = "running"
    /\ Captured(AllIds) + len <= MaxErrLen
    /\ LET r == inst[id]
           rejects == kind = "missingModule"
           pending == r.promise = "pending"
           r1 == [r EXCEPT !.errLen = r.errLen + len]
       IN
        /\ inst' = [inst EXCEPT ![id] = IF rejects THEN CatchCreate(r1) ELSE r1]
        /\ instances' = IF rejects /\ pending THEN instances \ {id} ELSE instances
        /\ ev' = [Ev("stderr", id) EXCEPT
                    !.settle = IF rejects /\ pending THEN "rejected" ELSE "none",
                    !.msg = IF rejects /\ pending THEN "missingModule" ELSE "-"]
    /\ UNCHANGED <<cmd, others>>

\* what remove(id) does to the instance it found
RemoveRec(r) ==
    [(IF ~r.killed THEN [Kill(r) EXCEPT !.killTimer = "pending"] ELSE r)
        EXCEPT !.isActive = FALSE]

RemoveSent(id, r) == IF ~r.killed THEN KillSent(id, r, "SIGTERM") ELSE {}

\* remove() returning true for every well-formed id
remove_trueIfValid(id) ==
    LET found == validateInstanceId(id) /\ id \in instances IN
    /\ inst' = IF found THEN [inst EXCEPT ![id] = RemoveRec(inst[id])] ELSE inst
    /\ instances' = IF found THEN instances \ {id} ELSE instances
    /\ ev' = [Ev("remove", id) EXCEPT
                !.ret = IF validateInstanceId(id) THEN "true" ELSE "false",
                !.sent = IF found THEN RemoveSent(id, inst[id]) ELSE {}]
    /\ UNCHANGED <<cmd, others>>

remove(id) ==
    LET found == validateInstanceId(id) /\ id \in instances IN
    /\ inst' = IF found THEN [inst EXCEPT ![id] = RemoveRec(inst[id])] ELSE inst
    /\ instances' = IF found THEN instances \ {id} ELSE instances
    /\ ev' = [Ev("remove", id) EXCEPT
                !.ret = IF found THEN "true" ELSE "false",
                !.sent = IF found THEN RemoveSent(id, inst[id]) ELSE {}]
    /\ UNCHANGED <<cmd, others>>

\* the timer remove() set 5 s earlier
KillTimer(id) ==
    /\ inst[id].killTimer = "pending"
    /\ LET r == inst[id] IN
        /\ inst' = [inst EXCEPT ![id] =
                      [(IF ~r.killed THEN Kill(r) ELSE r) EXCEPT !.killTimer = "none"]]
        /\ ev' = [Ev("killTimer", id) EXCEPT
                    !.sent = IF ~r.killed THEN KillSent(id, r, "SIGKILL") ELSE {}]
    /\ UNCHANGED <<instances, cmd, others>>

\* cleanup() that stops after the first instance
cleanup_firstOnly ==
    LET first == IF instances = {} THEN {} ELSE {CHOOSE i \in instances : TRUE} IN
    /\ inst' = [i \in AllIds |-> IF i \in first THEN RemoveRec(inst[i]) ELSE inst[i]]
    /\ instances' = instances \ first
    /\ ev' = [Ev("cleanup", 0) EXCEPT
                !.ret = "resolved",
                !.sent = UNION {RemoveSent(i, inst[i]) : i \in first}]
    /\ UNCHANGED <<cmd, others>>

cleanup ==
    /\ inst' = [i \in AllIds |-> IF i \in instances THEN RemoveRec(inst[i]) ELSE inst[i]]
    /\ instances' = {}
    /\ ev' = [Ev("cleanup", 0) EXCEPT
                !.ret = "resolved",
                !.sent = UNION {RemoveSent(i, inst[i]) : i \in instances}]
    /\ UNCHANGED <<cmd, others>>

undefined == [undefined |-> TRUE]

get(id) == IF validateInstanceId(id) /\ id \in instances THEN inst[id] ELSE undefined

list == {[id |-> i, isActive |-> inst[i].isActive] : i \in instances}

\* ------------------------------------------------------------- strings
\* A string is a sequence of characters.  A printable character, and each of
\* "\t" "\n" "\f" "\r", is the string of length 1 that holds it; the control
\* characters without a notation are "NUL" (0x00), "SOH" (0x01), "VT" (0x0B)
\* and "ESC" (0x1B).
Chars(str) == SubSeq([i \in 1..Len(str) |-> SubSeq(str, i, i)], 1, Len(str))

Range(f) == {f[i] : i \in DOMAIN f}

Repeat(c, n) == SubSeq([i \in 1..n |-> c], 1, n)

SeqsUpTo(A, n) == UNION {[1..k -> A] : k \in 0..n}

UpperCase == Chars("ABCDEFGHIJKLMNOPQRSTUVWXYZ")
LowerCase == Chars("abcdefghijklmnopqrstuvwxyz")

\* the lower-case letter of each upper-case letter
LowerOf ==
    [c \in Range(UpperCase) |-> LowerCase[CHOOSE k \in 1..26 : UpperCase[k] = c]]

\* the characters \s of the pattern matches
WhiteSpace == {" ", "\t", "\n", "VT", "\f", "\r"}

\* String.prototype.toLowerCase with an identity mapping
toLowerCase_identity(str) == str

\* String.prototype.toLowerCase
toLowerCase(str) ==
    SubSeq([i \in 1..Len(str) |->
               IF str[i] \in DOMAIN LowerOf THEN LowerOf[str[i]] ELSE str[i]],
           1, Len(str))

Contains(key, name) ==
    \E i \in 1..Len(key) :
        /\ i + Len(name) - 1 <= Len(key)
        /\ SubSeq(key, i, i + Len(name) - 1) = name

EndsWith(key, name) ==
    /\ Len(name) <= Len(key)
    /\ SubSeq(key, Len(key) - Len(name) + 1, Len(key)) = name

\* String.prototype.includes
includes(str, sub) == Len(sub) = 0 \/ Contains(str, sub)

RECURSIVE replace(_, _, _)
\* str.replace(/c/g, rep)
replace(str, c, rep) ==
    IF Len(str) = 0 THEN <<>>
    ELSE IF Len(str) = 1 THEN (IF str[1] = c THEN rep ELSE str)
    ELSE LET half == Len(str) \div 2 IN
         replace(SubSeq(str, 1, half), c, rep)
            \o replace(SubSeq(str, half + 1, Len(str)), c, rep)

\* ------------------------------------------------------------ commands
\* A key is a sequence of characters.  The characters of the class that
\* opens the allowedKeys pattern:
ClassChars ==
    Range(LowerCase) \cup Range(UpperCase) \cup Range(Chars("0123456789"))
        \cup WhiteSpace
        \cup Range(Chars("-_.()[]{}|:;'\"<>?!@#$%^&*+=~/\\"))
OtherChars == {",", "NUL"}

\* the named keys between the first and the last alternative of the pattern
InnerNames ==
    { Chars("control"), Chars("shift"), Chars("alt"), Chars("command"),
      Chars("enter"), Chars("tab"), Chars("escape"), Chars("backspace"),
      Chars("delete"), Chars("space"), Chars("up"), Chars("down"), Chars("left") }
RightName == Chars("right")

\* allowedKeys.test(key): the alternation binds weaker than ^ and $, so the
\* pattern accepts a key that starts with a character of the class, or contains
\* one of the inner names, or ends with "right"
allowedKeys(key) ==
    \/ Len(key) >= 1 /\ key[1] \in ClassChars
    \/ \E name \in InnerNames : Contains(key, name)
    \/ EndsWith(key, RightName)

validateKeys(keys) ==
    /\ Len(keys) # 0
    /\ Len(keys) <= 50
    /\ \A k \in 1..Len(keys) : Len(keys[k]) <= 20 /\ allowedKeys(keys[k])

\* the chord openCommandPalette sends
Chord == <<<<"c","o","n","t","r","o","l">>, <<"s","h","i","f","t">>, <<"p">>>>

KeyInputs == {<<>>, Chord, <<<<"p">>>>, <<<<",">>>>}

\* process.platform
Platforms == {"win32", "darwin", "linux"}

\* the keys of openCommandPalette: [modifierKey, 'shift', 'p']
PaletteKeys(platform) ==
    <<Chars(IF platform = "darwin" THEN "command" ELSE "control"),
      Chars("shift"), Chars("p")>>

\* the text openClineTab types, and the test of each of its characters
ClineText == Chars("Cline: Open in New Tab")

CommandChar(char) ==
    char \in Range(UpperCase) \cup Range(LowerCase) \cup Range(Chars("0123456789"))
             \cup WhiteSpace \cup {":"}

\* getRequired(id) and the window check that follows it: the error, or "ok"
getRequired(id) ==
    IF ~validateInstanceId(id) THEN "invalidId"
    ELSE IF id \notin instances THEN "notFound"
    ELSE IF ~inst[id].isActive THEN "notActive"
    ELSE "ok"

WindowCheck(id) ==
    IF getRequired(id) # "ok" THEN getRequired(id)
    ELSE IF inst[id].window = 0 THEN "windowLost"
    ELSE "ok"

Failed(op, id, msg) == [Ev(op, id) EXCEPT !.settle = "rejected", !.msg = msg]

\* the calls of windowManager.sendKeys of the operation with the outcome of
\* the call that has completed
Logged(log, outcome) ==
    [k \in 1..Len(log) |-> IF k = Len(log) THEN [log[k] EXCEPT !.outcome = outcome]
                           ELSE log[k]]

\* windowManager.sendKeys(instance.window, keys) is called: one call, one try;
\* sendKeys calls focusWindow(windowInfo) first
Invoke(op, id, platform, phase, idx, keys) ==
    /\ cmd' = [op |-> op, id |-> id, platform |-> platform, phase |-> phase,
               idx |-> idx, tries |-> 1,
               log |-> Append(cmd.log, [keys |-> keys, outcome |-> "pending"])]
    /\ ev' = [Ev(op, id) EXCEPT !.invoked = TRUE, !.n = 1,
                                !.calls = <<"sendKeys", "focusWindow">>]

sendKeyToInstance(id, keys) ==
    /\ cmd.op = "none"
    /\ IF ~validateKeys(keys)
       THEN ev' = Failed("sendKeyToInstance", id, "invalidKeys") /\ cmd' = cmd
       ELSE IF WindowCheck(id) # "ok"
       THEN ev' = Failed("sendKeyToInstance", id, WindowCheck(id)) /\ cmd' = cmd
       ELSE Invoke("sendKeyToInstance", id, "-", "sendKeys", 0, keys)
    /\ UNCHANGED <<inst, instances, others>>

openCommandPalette(id, platform) ==
    /\ cmd.op = "none"
    /\ IF WindowCheck(id) # "ok"
       THEN ev' = Failed("openCommandPalette", id, WindowCheck(id)) /\ cmd' = cmd
       ELSE IF ~validateKeys(PaletteKeys(platform))
       THEN ev' = Failed("openCommandPalette", id, "invalidKeys") /\ cmd' = cmd
       ELSE Invoke("openCommandPalette", id, platform, "sendKeys", 0,
                   PaletteKeys(platform))
    /\ UNCHANGED <<inst, instances, others>>

\* openClineTab up to the sendKeys call of the openCommandPalette it calls
openClineTab(id, platform) ==
    /\ cmd.op = "none"
    /\ IF WindowCheck(id) # "ok"
       THEN ev' = Failed("openClineTab", id, WindowCheck(id)) /\ cmd' = cmd
       ELSE IF ~validateKeys(PaletteKeys(platform))
       THEN ev' = Failed("openClineTab", id, "invalidKeys") /\ cmd' = cmd
       ELSE Invoke("openClineTab", id, platform, "palette", 0, PaletteKeys(platform))
    /\ UNCHANGED <<inst, instances, others>>

\* sendKeys completes and openClineTab goes on whatever the outcome was
SendKeysDone_goesOn(outcome) ==
    /\ cmd.phase \in {"sendKeys", "palette", "char", "enter"}
    /\ outcome = "ok" => inst[cmd.id].proc = "running"
    /\ IF cmd.phase = "palette"
       THEN /\ cmd' = [cmd EXCEPT !.phase = "settle", !.log = Logged(cmd.log, outcome)]
            /\ ev' = Ev(cmd.op, cmd.id)
       ELSE IF cmd.phase = "char"
       THEN /\ cmd' = [cmd EXCEPT !.phase = "charWait", !.log = Logged(cmd.log, outcome)]
            /\ ev' = Ev(cmd.op, cmd.id)
       ELSE IF outcome # "ok"
       THEN /\ cmd' = NoCmd
            /\ ev' = [Failed(cmd.op, cmd.id, "InputAutomationError")
                        EXCEPT !.n = cmd.tries, !.log = Logged(cmd.log, outcome)]
       ELSE /\ cmd' = NoCmd
            /\ ev' = [Ev(cmd.op, cmd.id) EXCEPT !.settle = "resolved",
                                                !.log = Logged(cmd.log, outcome)]
    /\ UNCHANGED <<inst, instances, others>>

\* BaseWindowManager.sendKeys completes: focusWindow returned false, the input
\* service threw, or the keys were injected (the window of a process that has
\* exited cannot take the focus)
SendKeysDone(outcome) ==
    /\ cmd.phase \in {"sendKeys", "palette", "char", "enter"}
    /\ outcome = "ok" => inst[cmd.id].proc = "running"
    /\ IF outcome # "ok"
       THEN /\ cmd' = NoCmd
            /\ ev' = [Failed(cmd.op, cmd.id, "InputAutomationError")
                        EXCEPT !.n = cmd.tries, !.log = Logged(cmd.log, outcome)]
       ELSE IF cmd.phase = "palette"
       THEN /\ cmd' = [cmd EXCEPT !.phase = "settle", !.log = Logged(cmd.log, outcome)]
            /\ ev' = Ev(cmd.op, cmd.id)
       ELSE IF cmd.phase = "char"
       THEN /\ cmd' = [cmd EXCEPT !.phase = "charWait", !.log = Logged(cmd.log, outcome)]
            /\ ev' = Ev(cmd.op, cmd.id)
       ELSE /\ cmd' = NoCmd
            /\ ev' = [Ev(cmd.op, cmd.id) EXCEPT !.settle = "resolved",
                                                !.log = Logged(cmd.log, outcome)]
    /\ UNCHANGED <<inst, instances, others>>

\* openClineTab after its 500 ms or 30 ms wait: the next character, which is
\* tested before it is sent, or Enter
ClineTimer ==
    /\ cmd.phase \in {"settle", "charWait"}
    /\ IF cmd.idx < TextLen
       THEN IF ~CommandChar(ClineText[cmd.idx + 1])
            THEN /\ cmd' = NoCmd
                 /\ ev' = [Failed(cmd.op, cmd.id, "invalidCharacter")
                             EXCEPT !.log = cmd.log]
            ELSE Invoke(cmd.op, cmd.id, cmd.platform, "char", cmd.idx + 1,
                        <<<<ClineText[cmd.idx + 1]>>>>)
       ELSE Invoke(cmd.op, cmd.id, cmd.platform, "enter", cmd.idx, <<Chars("enter")>>)
    /\ UNCHANGED <<inst, instances, others>>

SendOutcomes == {"ok", "focusFailed", "inputError"}

\* ----------------------------------------- WindowsApiService wrappers
\* bound: operations that fail up to this many times before they succeed
MaxFails == 4

\* the titles a window handle may carry
HandleTitles == {"", "Cursor"}

\* WindowsApiService.isWindowResponding(window): the title stored in the handle
ApiIsWindowResponding(window) == Len(window.title) > 0

\* the catch block of the loop with attempt <= MAX_RETRIES: one more round
RetryFail_extraRound(r, err) ==
    IF r.attempt <= MAX_RETRIES
    THEN [r EXCEPT !.lastError = err, !.errorAt = r.attempt, !.phase = "delay",
                   !.delays = r.delays + 1]
    ELSE [r EXCEPT !.lastError = err, !.errorAt = r.attempt, !.phase = "done",
                   !.ret = "thrown"]

\* the catch block of the loop when it waits RETRY_DELAY after every attempt
RetryFail_alwaysWaits(r, err) ==
    IF r.attempt < MAX_RETRIES
    THEN [r EXCEPT !.lastError = err, !.errorAt = r.attempt, !.phase = "delay",
                   !.delays = r.delays + 1]
    ELSE [r EXCEPT !.lastError = err, !.errorAt = r.attempt, !.phase = "done",
                   !.delays = r.delays + 1, !.ret = "thrown"]

\* the catch block of the loop: remember the error (errorAt: the attempt it
\* comes from), wait RETRY_DELAY unless this was the last attempt (delays: the
\* waits so far), after which the loop ends and lastError is thrown
RetryFail(r, err) ==
    IF r.attempt < MAX_RETRIES
    THEN [r EXCEPT !.lastError = err, !.errorAt = r.attempt, !.phase = "delay",
                   !.delays = r.delays + 1]
    ELSE [r EXCEPT !.lastError = err, !.errorAt = r.attempt, !.phase = "done",
                   !.ret = "thrown"]

\* one round of the loop without the test of isWindowResponding
RetryAttempt_unchecked(r) ==
    IF r.requireFocus THEN [r EXCEPT !.phase = "focus"]
    ELSE [r EXCEPT !.phase = "operation", !.calls = r.calls + 1]

\* one round of the loop up to its first timer or pending operation
RetryAttempt(r) ==
    IF ~ApiIsWindowResponding(r) THEN RetryFail(r, "Window is not responding")
    ELSE IF r.requireFocus THEN [r EXCEPT !.phase = "focus"]
    ELSE [r EXCEPT !.phase = "operation", !.calls = r.calls + 1]

\* withRetry(operation, window, {requireFocus}) is called; the operation is
\* one that fails the first `fails` times it is invoked
withRetry(fails, title, requireFocus) ==
    /\ retry.phase = "idle"
    /\ retry' = RetryAttempt([NoRetry EXCEPT !.attempt = 1, !.fails = fails,
                                             !.title = title,
                                             !.requireFocus = requireFocus])
    /\ UNCHANGED <<inst, instances, cmd, ev, race, wm, desk, call, kb>>

\* this.focusWindow(window) returns: its own operation waits 100 ms and finds
\* the title of the handle, which the responding test has just found nonempty
RetryFocusDone ==
    /\ retry.phase = "focus"
    /\ retry' = IF ApiIsWindowResponding(retry)
                THEN [retry EXCEPT !.phase = "operation", !.calls = retry.calls + 1]
                ELSE RetryFail(retry, "Failed to obtain window focus")
    /\ UNCHANGED <<inst, instances, cmd, ev, race, wm, desk, call, kb>>

\* the promise of operation() settles
RetryOperationDone ==
    /\ retry.phase = "operation"
    /\ retry' = IF retry.calls <= retry.fails
                THEN RetryFail(retry, "operation failed")
                ELSE [retry EXCEPT !.phase = "done", !.ret = "returned"]
    /\ UNCHANGED <<inst, instances, cmd, ev, race, wm, desk, call, kb>>

\* RETRY_DELAY has passed: the next round
RetryTimer ==
    /\ retry.phase = "delay"
    /\ retry' = RetryAttempt([retry EXCEPT !.attempt = retry.attempt + 1])
    /\ UNCHANGED <<inst, instances, cmd, ev, race, wm, desk, call, kb>>

\* withTimeout(operation, timeoutMs): the timer is set, operation() called and
\* both promises handed to Promise.race
withTimeout ==
    /\ race.op = "none"
    /\ race' = [NoRace EXCEPT !.op = "pending", !.timer = "armed"]
    /\ UNCHANGED <<inst, instances, cmd, ev, retry, wm, desk, call, kb>>

\* the promise returned by Promise.race takes the first settlement only
RaceSettle(r, outcome) ==
    IF r.outcome = "none" THEN [r EXCEPT !.outcome = outcome]
    ELSE [r EXCEPT !.late = r.late + 1]

\* a race in which the last settlement wins
RaceTimer_lastWins ==
    /\ race.timer = "armed"
    /\ race' = [race EXCEPT !.timer = "fired", !.outcome = "timeout"]
    /\ UNCHANGED <<inst, instances, cmd, ev, retry, wm, desk, call, kb>>

\* the timer fires: reject(new Error('Operation timed out'))
RaceTimer ==
    /\ race.timer = "armed"
    /\ race' = RaceSettle([race EXCEPT !.timer = "fired"], "timeout")
    /\ UNCHANGED <<inst, instances, cmd, ev, retry, wm, desk, call, kb>>

\* the operation's promise fulfils or rejects; nothing stops it after the
\* timer has fired
RaceOperationDone(result) ==
    /\ race.op = "pending"
    /\ race' = RaceSettle([race EXCEPT !.op = result],
                          IF result = "fulfilled" THEN "value" ELSE "error")
    /\ UNCHANGED <<inst, instances, cmd, ev, retry, wm, desk, call, kb>>

\* ---------------------------------------------------- MacOSWindowManager
MAX_TITLE_LENGTH == 500
MAX_PROCESS_ID == 999999

\* ALLOWED_CHARACTERS.test(title): every character is in the class
ALLOWED_CHARACTERS(title) ==
    \A i \in 1..Len(title) :
        title[i] \in Range(LowerCase) \cup Range(UpperCase) \cup Range(Chars("0123456789"))
                     \cup WhiteSpace
                     \cup Range(Chars("-_.()[]{}|:;'\"<>?!@#$%^&*+=~/\\"))

dangerous ==
    <<"tell application", "do shell script", "system events", "activate", "quit",
      "delete", "move", "copy", "run script", "osascript">>

dangerousChars == [k \in 1..Len(dangerous) |-> Chars(dangerous[k])]

Returned(value) == [ok |-> TRUE, value |-> value, error |-> ""]
Thrown(error) == [ok |-> FALSE, value |-> <<>>, error |-> error]

\* the escaping with the quotes replaced before the backslashes
Escape_quotesFirst(title) ==
    replace(replace(replace(replace(replace(replace(title,
        "\"", <<"\\", "\"">>),
        "\\", <<"\\", "\\">>),
        "'", <<"\\", "'">>),
        "\n", <<"\\", "n">>),
        "\r", <<"\\", "r">>),
        "\t", <<"\\", "t">>)

\* the six replace calls that escape a title for AppleScript
Escape(title) ==
    replace(replace(replace(replace(replace(replace(title,
        "\\", <<"\\", "\\">>),
        "\"", <<"\\", "\"">>),
        "'", <<"\\", "'">>),
        "\n", <<"\\", "n">>),
        "\r", <<"\\", "r">>),
        "\t", <<"\\", "t">>)

\* sanitizeTitle(title): the escaped title, or the error it throws
sanitizeTitle(title) ==
    IF Len(title) = 0 THEN Thrown("Title must be a non-empty string")
    ELSE IF Len(title) > MAX_TITLE_LENGTH
    THEN Thrown("Title length exceeds maximum allowed (500)")
    ELSE IF ~ALLOWED_CHARACTERS(title) THEN Thrown("Title contains invalid characters")
    ELSE LET lowerTitle == toLowerCase(title)
             hits == {k \in 1..Len(dangerous) : includes(lowerTitle, dangerousChars[k])}
         IN IF hits # {}
            THEN Thrown("Title contains forbidden sequence: "
                          \o dangerous[CHOOSE k \in hits : \A m \in hits : k <= m])
            ELSE Returned(Escape(title))

\* bound: titles of up to this many characters of TitleAlphabet are tried
MaxTitleLen == 4

TitleAlphabet == {"q", "u", "i", "T", "\"", "\\", "\n", "NUL"}

\* titles of the security tests and of the documentation, and long ones
SampleTitles ==
    { Chars("proj\"; do shell script \"rm -rf /\"; tell app \""),
      Chars("normal\"; do shell script \"rm -rf /\"; tell application \""),
      Chars("test'; tell application \"System Events\" to quit every process"),
      Chars("window\"; run script \"evil code\"; tell app \""),
      Chars("title containing tell application SystemEvents to delete"),
      Chars("title\nwith\nnewlines"),
      Chars("title with\ttabs"),
      Chars("title\rwith\rcarriage\rreturns"),
      Chars("Title with") \o <<"NUL">> \o Chars("null"),
      Chars("Title with") \o <<"SOH">> \o Chars("control"),
      Chars("Title with") \o <<"ESC">> \o Chars("escape"),
      Chars("Editor [Document]"),
      Chars("Terminal: ~/workspace"),
      Chars("Don't Quit, pal"),
      Chars("OSAScript notes"),
      Repeat("x", 1000),
      Repeat("x", MAX_TITLE_LENGTH),
      Repeat("x", MAX_TITLE_LENGTH + 1),
      Repeat("\"", 300) }

Titles == SeqsUpTo(TitleAlphabet, MaxTitleLen) \cup SampleTitles

NoResult == [ok |-> FALSE, value |-> <<>>, error |-> "-"]

\* a title waits to be sanitized
InitTitle ==
    /\ inst = [i \in AllIds |-> NoInst]
    /\ instances = {}
    /\ cmd = NoCmd
    /\ ev = NoEv
    /\ retry = NoRetry
    /\ race = NoRace
    /\ desk = NoDesk
    /\ call = NoCall
    /\ kb = NoKb
    /\ \E title \in Titles :
          wm = [op |-> "sanitizeTitle", phase |-> "input", title |-> title,
                out |-> NoResult, again |-> NoResult]

\* sanitizeTitle(title) is called
SanitizeTitle ==
    /\ wm.op = "sanitizeTitle"
    /\ wm.phase = "input"
    /\ wm' = [wm EXCEPT !.phase = "once", !.out = sanitizeTitle(wm.title)]
    /\ UNCHANGED <<inst, instances, cmd, ev, retry, race, desk, call, kb>>

\* sanitizeTitle is called with the title an earlier call returned
SanitizeAgain ==
    /\ wm.op = "sanitizeTitle"
    /\ wm.phase = "once"
    /\ wm.out.ok
    /\ wm' = [wm EXCEPT !.phase = "twice", !.again = sanitizeTitle(wm.out.value)]
    /\ UNCHANGED <<inst, instances, cmd, ev, retry, race, desk, call, kb>>

\* ------------------------------------------------------ window managers

\* titles a window may show
DeskTitles == {<<>>, Chars("Cursor")}

\* WindowInfo: id and processId are the process id in every variant here
Handle(pid, title) == [id |-> pid, title |-> title, processId |-> pid]

\* process ids and titles of the handles passed to the window managers
HandlePids == Pids \cup {0, MAX_PROCESS_ID + 1}

HandleTitleSeqs ==
    {<<>>, Chars("Cursor"), Chars("a\"b"), Chars("Quit"), <<"a", "NUL">>,
     Chars("it's"), Repeat("x", MAX_TITLE_LENGTH + 1)}

\* titles matter to the macOS variant, which puts them into scripts; the other
\* variants get handles with the titles windows show
TitlesFor(platform) == IF platform = "darwin" THEN HandleTitleSeqs ELSE DeskTitles

\* the desktop changes on its own: a window opens, closes or changes its title
\* (the desktop is followed until the call under way has ended)
DeskWindow(p, w) ==
    /\ wm.phase # "done"
    /\ w # desk.win[p]
    /\ w.open \/ w.title = <<>>
    /\ desk' = [win |-> [desk.win EXCEPT ![p] = w],
                active |-> IF desk.active = p /\ ~w.open THEN 0 ELSE desk.active]
    /\ UNCHANGED <<inst, instances, cmd, ev, retry, race, wm, call, kb>>

\* the user or another program moves the focus
DeskFocus(p) ==
    /\ wm.phase # "done"
    /\ p # desk.active
    /\ IF p = 0 THEN TRUE ELSE desk.win[p].open
    /\ desk' = [desk EXCEPT !.active = p]
    /\ UNCHANGED <<inst, instances, cmd, ev, retry, race, wm, call, kb>>

\* validateProcessId(processId); process ids are integers in the model
validateProcessId(processId) ==
    IF processId <= 0 \/ processId > MAX_PROCESS_ID
    THEN Thrown("Invalid process ID: " \o ToString(processId))
    ELSE Returned(processId)

\* getAllWindows() of each variant when its query works (queryOk) or fails:
\* xdotool lists every visible window; the AppleScript listing keeps the
\* windows that pass sanitizeTitle and validateProcessId; active-win knows
\* the active window only
getAllWindows(platform, queryOk) ==
    IF ~queryOk THEN {}
    ELSE IF platform = "linux"
    THEN {Handle(p, desk.win[p].title) : p \in {q \in Pids : desk.win[q].open}}
    ELSE IF platform = "darwin"
    THEN {Handle(p, desk.win[p].title) :
             p \in {q \in Pids : /\ desk.win[q].open
                                 /\ sanitizeTitle(desk.win[q].title).ok
                                 /\ validateProcessId(q).ok}}
    ELSE {Handle(p, desk.win[p].title) : p \in {q \in Pids : q = desk.active}}

\* BaseWindowManager.isWindowResponding: findWindowByProcessId found a window
BaseIsWindowResponding(platform, queryOk, windowInfo) ==
    \E w \in getAllWindows(platform, queryOk) : w.processId = windowInfo.processId

Bool(b) == IF b THEN "true" ELSE "false"

\* one call is followed from its start to its end
WmFree == wm.phase = "idle"

WmCall(op, platform, windowInfo) ==
    [NoWm EXCEPT !.op = op, !.platform = platform, !.handle = windowInfo]

WmDone(w, ret) == [w EXCEPT !.phase = "done", !.ret = ret]

\* an error caught inside the call, which then returns false
WmCaught(w, error) == [w EXCEPT !.phase = "done", !.ret = "false", !.error = error]

\* an error thrown to the caller
WmThrown(w, error) == [w EXCEPT !.phase = "done", !.threw = TRUE, !.error = error]

\* windowManager.isWindowResponding(windowInfo)
IsWindowResponding(platform, windowInfo, queryOk) ==
    /\ WmFree
    /\ wm' = WmDone([WmCall("isWindowResponding", platform, windowInfo)
                        EXCEPT !.queried = queryOk],
                    Bool(BaseIsWindowResponding(platform, queryOk, windowInfo)))
    /\ UNCHANGED <<inst, instances, cmd, ev, retry, race, desk, call, kb>>

\* WindowsApiService.isWindowResponding(window)
ApiRespondingCall(windowInfo) ==
    /\ WmFree
    /\ wm' = WmDone(WmCall("apiIsWindowResponding", "win32", windowInfo),
                    Bool(ApiIsWindowResponding(windowInfo)))
    /\ UNCHANGED <<inst, instances, cmd, ev, retry, race, desk, call, kb>>

\* the scripts of focusWindow and closeWindow, line by line
ScriptText(context, processId, title) ==
    Chars("\n tell application \"System Events\"\n  try\n   set targetProc to first process whose unix id is ")
    \o Chars(ToString(processId))
    \o Chars(IF context = "focusWindow" THEN "\n   set frontmost of targetProc to true\n" ELSE "\n")
    \o Chars("   repeat with w in (every window of targetProc)\n    try\n     if name of w contains \"")
    \o title
    \o Chars("\" then\n")
    \o Chars(IF context = "focusWindow"
             THEN "      set index of w to 1\n"
             ELSE "      -- Attempt to click close button (safer than arbitrary actions)\n      click button 1 of w\n")
    \o Chars("      return \"SUCCESS\"\n     end if\n    end try\n   end repeat\n   return \"NOT_FOUND\"\n  on error\n   return \"ERROR\"\n  end try\n end tell")

\* positions at which sub starts in str
Positions(str, sub) ==
    {i \in 1..Len(str) : i + Len(sub) - 1 <= Len(str)
                         /\ SubSeq(str, i, i + Len(sub) - 1) = sub}

\* /first.*second/ matches: second follows first with no line break between
SameLine(str, first, second) ==
    \E i \in Positions(str, first), j \in Positions(str, second) :
        /\ j >= i + Len(first)
        /\ \A k \in (i + Len(first))..(j - 1) : str[k] \notin {"\n", "\r"}

\* the literal parts of dangerousPatterns
PatternWords ==
    [doShellScript |-> Chars("do shell script"), systemEvents |-> Chars("system events"),
     delete |-> Chars("delete"), move |-> Chars("move"),
     tellApplication |-> Chars("tell application"), quit |-> Chars("quit"),
     runScript |-> Chars("run script")]

\* secureExecAppleScript: one of dangerousPatterns matches the script
DangerousScript(script) ==
    \E low \in {toLowerCase(script)} :
    \/ includes(low, PatternWords.doShellScript)
    \/ SameLine(low, PatternWords.systemEvents, PatternWords.delete)
    \/ SameLine(low, PatternWords.systemEvents, PatternWords.move)
    \/ SameLine(low, PatternWords.tellApplication, PatternWords.quit)
    \/ includes(low, PatternWords.runScript)

\* the command line that secureExecAppleScript hands to exec, which runs it
\* with /bin/sh -c
CommandLine(script) == Chars("osascript -e '") \o script \o <<"'">>

\* /bin/sh: a single-quoted word that opens at position open of line ends at
\* the next single quote, whatever stands before that quote (0: it has no end)
SingleQuoteEnd(line, open) ==
    LET quotes == {i \in (open + 1)..Len(line) : line[i] = "'"}
    IN IF quotes = {} THEN 0 ELSE CHOOSE i \in quotes : \A j \in quotes : i <= j

\* secureExecAppleScript(script, context) up to the start of osascript
secureExecAppleScript(w, context, script) ==
    IF DangerousScript(script)
    THEN [w EXCEPT !.phase = "refused", !.error = "Script contains forbidden operations"]
    ELSE [w EXCEPT !.phase = "script",
                   !.scripts = Append(w.scripts, [context |-> context, text |-> script])]

\* the start of focusWindow/closeWindow with the raw title in the script
MacPrepare_rawTitle(w, context) ==
    LET r == secureExecAppleScript(w, context,
                 ScriptText(context, w.handle.processId, w.handle.title))
    IN IF r.phase = "refused" THEN WmCaught(r, r.error) ELSE r

\* MacOSWindowManager.focusWindow/closeWindow up to the start of osascript:
\* validation, script, pattern test; every error is caught and gives false
MacPrepare(w, context) ==
    LET processId == validateProcessId(w.handle.processId)
        title == sanitizeTitle(w.handle.title)
    IN IF ~processId.ok THEN WmCaught(w, processId.error)
       ELSE IF ~title.ok THEN WmCaught(w, title.error)
       ELSE LET r == secureExecAppleScript(w, context,
                         ScriptText(context, processId.value, title.value))
            IN IF r.phase = "refused" THEN WmCaught(r, r.error) ELSE r

\* windowManager.focusWindow(windowInfo) is called
FocusWindow(platform, windowInfo) ==
    /\ WmFree
    /\ LET w == WmCall("focusWindow", platform, windowInfo) IN
        wm' = IF platform = "linux" THEN [w EXCEPT !.phase = "activate"]
              ELSE IF platform = "darwin" THEN MacPrepare(w, "focusWindow")
              ELSE [w EXCEPT !.phase = "query"]
    /\ UNCHANGED <<inst, instances, cmd, ev, retry, race, desk, call, kb>>

\* MacOSWindowManager.closeWindow(windowInfo) is called
CloseWindow(windowInfo) ==
    /\ WmFree
    /\ wm' = MacPrepare(WmCall("closeWindow", "darwin", windowInfo), "closeWindow")
    /\ UNCHANGED <<inst, instances, cmd, ev, retry, race, desk, call, kb>>

\* scripts handed to the secureOsascript.exec of getPlatformSpecificApi()
RawScripts ==
    { Chars("return 1"),
      Chars("Do Shell Script \"id\""),
      Chars("tell application \"System Events\" to delete folder 1"),
      Chars("tell application \"System Events\"\ndelete folder 1"),
      Chars("tell application \"Finder\" to quit"),
      Chars("run script \"x\"") }

\* secureExecAppleScript called directly with a script
SecureExec(script) ==
    /\ WmFree
    /\ LET w == WmCall("secureExec", "darwin", NoHandle)
           r == secureExecAppleScript(w, "api", script)
       IN wm' = IF r.phase = "refused" THEN WmThrown(r, r.error) ELSE r
    /\ UNCHANGED <<inst, instances, cmd, ev, retry, race, desk, call, kb>>

ScriptResults == {"SUCCESS", "NOT_FOUND", "ERROR", "failed"}

\* osascript ends: with one of the script's results, or with an error
MacScriptDone(result) ==
    /\ wm.phase = "script"
    /\ LET h == wm.handle
           found == h.processId \in Pids /\ desk.win[h.processId].open
       IN
        /\ result = "SUCCESS" => wm.op # "secureExec" /\ found
        /\ wm' = IF result = "failed"
                 THEN IF wm.op = "secureExec"
                      THEN WmThrown(wm, "AppleScript execution failed in api")
                      ELSE WmCaught(wm, "AppleScript execution failed in " \o wm.op)
                 ELSE IF wm.op = "secureExec" THEN WmDone(wm, result)
                 ELSE IF wm.op = "closeWindow" THEN WmDone(wm, Bool(result = "SUCCESS"))
                 ELSE IF result = "SUCCESS" THEN [wm EXCEPT !.phase = "verify"]
                 ELSE WmDone(wm, "false")
        /\ desk' = IF result # "SUCCESS" THEN desk
                   ELSE IF wm.op = "closeWindow"
                   THEN [win |-> [desk.win EXCEPT ![h.processId] = NoWindow],
                         active |-> IF desk.active = h.processId THEN 0 ELSE desk.active]
                   ELSE [desk EXCEPT !.active = h.processId]
    /\ UNCHANGED <<inst, instances, cmd, ev, retry, race, call, kb>>

\* LinuxWindowManager.focusWindow: xdotool windowactivate ends
LinuxActivate(ok) ==
    /\ wm.phase = "activate"
    /\ LET h == wm.handle IN
        /\ ok => h.processId \in Pids /\ desk.win[h.processId].open
        /\ wm' = IF ok THEN [wm EXCEPT !.phase = "verify"]
                 ELSE WmCaught(wm, "xdotool failed")
        /\ desk' = IF ok THEN [desk EXCEPT !.active = h.processId] ELSE desk
    /\ UNCHANGED <<inst, instances, cmd, ev, retry, race, call, kb>>

\* a verification that trusts the platform step
FocusVerify_trusting(queryOk) ==
    /\ wm.phase = "verify"
    /\ wm' = WmDone([wm EXCEPT !.queried = TRUE,
                               !.seen = IF queryOk THEN desk.active ELSE 0],
                    "true")
    /\ UNCHANGED <<inst, instances, cmd, ev, retry, race, desk, call, kb>>

\* "Verify focus": getActiveWindow() returns the active window (null when the
\* query fails or nothing is active) and its processId is compared
FocusVerify(queryOk) ==
    /\ wm.phase = "verify"
    /\ LET seen == IF queryOk THEN desk.active ELSE 0 IN
        wm' = WmDone([wm EXCEPT !.queried = TRUE, !.seen = seen],
                     Bool(seen # 0 /\ seen = wm.handle.processId))
    /\ UNCHANGED <<inst, instances, cmd, ev, retry, race, desk, call, kb>>

WinMaxAttempts == 10

\* WindowsWindowManager.focusWindow: the first active-window query
WinQuery(queryOk) ==
    /\ wm.phase = "query"
    /\ wm' = IF ~queryOk THEN WmCaught(wm, "active-win failed")
             ELSE IF desk.active # 0 /\ desk.active = wm.handle.processId
             THEN WmDone([wm EXCEPT !.queried = TRUE, !.seen = desk.active], "true")
             ELSE [wm EXCEPT !.phase = "chord", !.queried = TRUE, !.seen = desk.active]
    /\ UNCHANGED <<inst, instances, cmd, ev, retry, race, desk, call, kb>>

\* one round of the loop: Alt+Tab is sent, 200 ms pass, the active window is
\* queried; the chord gives the focus to some open window
WinChord(sendOk, queryOk, next) ==
    /\ wm.phase = "chord"
    /\ next = desk.active \/ (next # 0 /\ desk.win[next].open)
    /\ LET sent == [wm EXCEPT !.chords = wm.chords + 1] IN
        /\ desk' = IF sendOk THEN [desk EXCEPT !.active = next] ELSE desk
        /\ wm' = IF ~sendOk THEN WmCaught(wm, "Failed to send keys")
                 ELSE IF ~queryOk THEN WmCaught(sent, "active-win failed")
                 ELSE IF next # 0 /\ next = wm.handle.processId
                 THEN WmDone([sent EXCEPT !.seen = next], "true")
                 ELSE IF sent.chords >= WinMaxAttempts
                 THEN WmCaught([sent EXCEPT !.seen = next], "Failed to focus window")
                 ELSE [sent EXCEPT !.seen = next]
    /\ UNCHANGED <<inst, instances, cmd, ev, retry, race, call, kb>>

\* ------------------------------------------------------------- validators
\* what a validator call gives: the value it returns, or the throw statement
\* it reaches (the line of the statement and the message of the error)
ReturnedValue(value) == [ok |-> TRUE, value |-> value, error |-> <<>>, line |-> 0]
ThrownAt(line, error) == [ok |-> FALSE, value |-> <<>>, error |-> error, line |-> line]

\* the test of each entry in the map callback of validateKeys
KeyPasses(key) == Len(key) <= 20 /\ allowedKeys(key)

\* the entry at which the map callback throws
FirstFailing(keys) ==
    keys[CHOOSE k \in 1..Len(keys) :
            /\ ~KeyPasses(keys[k])
            /\ \A m \in 1..(k - 1) : KeyPasses(keys[m])]

\* validateKeys(keys) with the error it throws: the checks in their order,
\* the entries in theirs
validateKeysResult(keys) ==
    IF Len(keys) = 0 THEN ThrownAt(55, Chars("Keys must be a non-empty array"))
    ELSE IF Len(keys) > 50
    THEN ThrownAt(59, Chars("Too many keys in sequence (maximum 50)"))
    ELSE IF \A k \in 1..Len(keys) : KeyPasses(keys[k]) THEN ReturnedValue(keys)
    ELSE LET key == FirstFailing(keys)
         IN IF Len(key) > 20 THEN ThrownAt(66, Chars("Invalid key format"))
            ELSE ThrownAt(70, Chars("Invalid key: ") \o key)

\* /^[a-f0-9-]{36}$/.test(id)
InstanceIdPattern(id) ==
    /\ Len(id) = 36
    /\ \A i \in 1..Len(id) : id[i] \in Range(Chars("abcdef0123456789-"))

\* validateInstanceId(id) on the string it is given
validateInstanceIdResult(id) ==
    IF ~InstanceIdPattern(id) THEN ThrownAt(45, Chars("Invalid instance ID format"))
    ELSE ReturnedValue(id)

MAX_PATH_LENGTH == 1000

\* ALLOWED_PATH_PATTERN.test(inputPath)
ALLOWED_PATH_PATTERN(inputPath) ==
    /\ Len(inputPath) > 0
    /\ \A i \in 1..Len(inputPath) :
          inputPath[i] \in Range(LowerCase) \cup Range(UpperCase)
                           \cup Range(Chars("0123456789")) \cup Range(Chars("-_./\\:"))
                           \cup WhiteSpace

FORBIDDEN_PATHS ==
    { Chars("/etc"), Chars("/root"), Chars("/var/log"), Chars("/System"),
      Chars("/Library/Keychains"), Chars("/private/var/db"),
      Chars("C:\\Windows\\System32"), Chars("C:\\Users\\Administrator") }

\* String.prototype.startsWith
startsWith(str, prefix) ==
    /\ Len(prefix) <= Len(str)
    /\ SubSeq(str, 1, Len(prefix)) = prefix

RECURSIVE split(_, _)
\* str.split(sep) for a separator of one character
split(str, sep) ==
    IF sep \notin Range(str) THEN <<str>>
    ELSE LET i == CHOOSE k \in 1..Len(str) :
                      str[k] = sep /\ \A m \in 1..(k - 1) : str[m] # sep
         IN <<SubSeq(str, 1, i - 1)>> \o split(SubSeq(str, i + 1, Len(str)), sep)

RECURSIVE join(_, _)
\* segments.join(sep)
join(segments, sep) ==
    IF Len(segments) = 0 THEN <<>>
    ELSE IF Len(segments) = 1 THEN segments[1]
    ELSE segments[1] \o <<sep>> \o join(Tail(segments), sep)

RECURSIVE normalizeString(_, _, _)
\* the segments path.posix keeps: empty and "." segments are dropped, ".."
\* removes the segment before it, or stays when nothing is left to remove and
\* the path is relative
normalizeString(res, segments, allowAboveRoot) ==
    IF Len(segments) = 0 THEN res
    ELSE LET segment == Head(segments)
             rest == Tail(segments)
         IN IF segment = <<>> \/ segment = <<".">>
            THEN normalizeString(res, rest, allowAboveRoot)
            ELSE IF segment # <<".", ".">>
            THEN normalizeString(Append(res, segment), rest, allowAboveRoot)
            ELSE IF Len(res) > 0 /\ res[Len(res)] # <<".", ".">>
            THEN normalizeString(SubSeq(res, 1, Len(res) - 1), rest, allowAboveRoot)
            ELSE IF allowAboveRoot
            THEN normalizeString(Append(res, segment), rest, allowAboveRoot)
            ELSE normalizeString(res, rest, allowAboveRoot)

\* path.normalize(path) of path.posix
normalize(path) ==
    IF Len(path) = 0 THEN <<".">>
    ELSE LET isAbsolute == path[1] = "/"
             trailingSeparator == path[Len(path)] = "/"
             body == join(normalizeString(<<>>, split(path, "/"), ~isAbsolute), "/")
         IN IF Len(body) = 0
            THEN (IF isAbsolute THEN <<"/">>
                  ELSE IF trailingSeparator THEN <<".", "/">> ELSE <<".">>)
            ELSE (IF isAbsolute THEN <<"/">> ELSE <<>>) \o body
                    \o (IF trailingSeparator THEN <<"/">> ELSE <<>>)

\* path.resolve(path) of path.posix in the working directory cwd
resolve(path, cwd) ==
    LET full == IF Len(path) > 0 /\ path[1] = "/" THEN path
                ELSE cwd \o <<"/">> \o path
    IN <<"/">> \o join(normalizeString(<<>>, split(full, "/"), FALSE), "/")

\* validatePath with the forbidden prefixes looked for in the input itself
validatePath_unnormalized(inputPath, description) ==
    IF Len(inputPath) = 0
    THEN ThrownAt(26, description \o Chars(" must be a valid string"))
    ELSE IF Len(inputPath) > MAX_PATH_LENGTH
    THEN ThrownAt(30, description \o Chars(" exceeds maximum length (1000)"))
    ELSE IF ~ALLOWED_PATH_PATTERN(inputPath)
    THEN ThrownAt(34, description \o Chars(" contains invalid characters"))
    ELSE LET normalizedPath == normalize(inputPath) IN
         IF includes(normalizedPath, <<".", ".">>)
         THEN ThrownAt(40, description \o Chars(" contains path traversal sequences"))
         ELSE IF \E forbidden \in FORBIDDEN_PATHS :
                    startsWith(toLowerCase(inputPath), toLowerCase(forbidden))
         THEN ThrownAt(45, description \o Chars(" accesses forbidden system directory"))
         ELSE ReturnedValue(normalizedPath)

\* PathResolver.validatePath(inputPath, description)
validatePath(inputPath, description) ==
    IF Len(inputPath) = 0
    THEN ThrownAt(26, description \o Chars(" must be a valid string"))
    ELSE IF Len(inputPath) > MAX_PATH_LENGTH
    THEN ThrownAt(30, description \o Chars(" exceeds maximum length (1000)"))
    ELSE IF ~ALLOWED_PATH_PATTERN(inputPath)
    THEN ThrownAt(34, description \o Chars(" contains invalid characters"))
    ELSE LET normalizedPath == normalize(inputPath) IN
         IF includes(normalizedPath, <<".", ".">>)
         THEN ThrownAt(40, description \o Chars(" contains path traversal sequences"))
         ELSE IF \E forbidden \in FORBIDDEN_PATHS :
                    startsWith(toLowerCase(normalizedPath), toLowerCase(forbidden))
         THEN ThrownAt(45, description \o Chars(" accesses forbidden system directory"))
         ELSE ReturnedValue(normalizedPath)

allowedRoots ==
    { Chars("/Users"), Chars("/home"), Chars("C:\\Users"), Chars("/tmp"),
      Chars("/var/tmp") }

\* PathResolver.validateWorkspacePath(userPath) when os.homedir() is homeDir
\* and the working directory is cwd
validateWorkspacePath(userPath, homeDir, cwd) ==
    LET validatedPath == validatePath(userPath, Chars("Workspace path")) IN
    IF ~validatedPath.ok THEN validatedPath
    ELSE LET resolvedPath == resolve(validatedPath.value, cwd)
             resolvedHome == resolve(homeDir, cwd)
             isAllowed == \E root \in allowedRoots :
                              startsWith(toLowerCase(resolvedPath), toLowerCase(root))
         IN IF ~startsWith(resolvedPath, resolvedHome) /\ ~isAllowed
            THEN ThrownAt(156, Chars("Workspace path must be within user directory or allowed development locations"))
            ELSE validatedPath

SAFE_ENV_KEYS ==
    { "PATH", "HOME", "USER", "LANG", "SHELL", "DISPLAY",
      "ELECTRON_ENABLE_LOGGING", "ELECTRON_ENABLE_STACK_DUMPING" }

\* an environment that takes over every variable of process.env
createSafeEnvironment_inheritAll(env) ==
    [key \in DOMAIN env \cup {"ELECTRON_ENABLE_LOGGING", "ELECTRON_ENABLE_STACK_DUMPING"} |->
        IF key \in {"ELECTRON_ENABLE_LOGGING", "ELECTRON_ENABLE_STACK_DUMPING"}
        THEN "1" ELSE env[key]]

\* createSafeEnvironment() when process.env is env (a function from the names
\* of the variables that are set to their values): the object given to spawn
createSafeEnvironment(env) ==
    [key \in (DOMAIN env \cap SAFE_ENV_KEYS)
                \cup {"ELECTRON_ENABLE_LOGGING", "ELECTRON_ENABLE_STACK_DUMPING"} |->
        IF key \in {"ELECTRON_ENABLE_LOGGING", "ELECTRON_ENABLE_STACK_DUMPING"}
        THEN "1" ELSE env[key]]

\* the throw statement of sanitizeTitle that a title reaches
sanitizeTitleLine(title) ==
    IF Len(title) = 0 THEN 21
    ELSE IF Len(title) > MAX_TITLE_LENGTH THEN 29
    ELSE IF ~ALLOWED_CHARACTERS(title) THEN 36
    ELSE 58

\* bound: key sequences of up to this many sample keys are validated
MaxKeys == 2

KeySamples ==
    { Chars("p"), Chars("control"), Chars("right"), Chars(","), Chars(",x"),
      Chars("invalid_key"), Chars(",shift,"), Repeat("a", 21) }

KeySeqs ==
    SeqsUpTo(KeySamples, MaxKeys)
        \cup {Repeat(Chars("p"), 50), Repeat(Chars("p"), 51)}

\* bound: paths of up to this many parts are validated
MaxPathParts == 4

PathParts ==
    { Chars("/"), Chars(".."), Chars("etc"), Chars("tmp"), Chars("foo"),
      Chars("home") }

RECURSIVE Flatten(_)
Flatten(parts) ==
    IF Len(parts) = 0 THEN <<>> ELSE Head(parts) \o Flatten(Tail(parts))

SamplePaths ==
    { Chars("/ETC/passwd"), Chars("/./etc/"), Chars("a..b"), Chars("./work/"),
      Chars("/Users/foo/work"), Chars("/var/tmp/x"), Chars("/var/log/x"),
      Chars("/opt/foo/work"), Chars("/opt/food"), Chars("/srv/www"),
      Chars("C:\\Windows\\System32"), Chars("/private/var/db/x y"),
      Chars("/tmp/a,b"), Chars(","), Chars("/home/foo/a;b"),
      Repeat("a", 1000), Repeat("a", 1001) }

Paths == {Flatten(parts) : parts \in SeqsUpTo(PathParts, MaxPathParts)} \cup SamplePaths

\* os.homedir() and process.cwd() of the machines the paths are validated on
Machines ==
    { [homeDir |-> Chars("/home/foo"), cwd |-> Chars("/srv")],
      [homeDir |-> Chars("/opt/foo"), cwd |-> Chars("/opt/foo/work")] }

InstanceIdSamples ==
    { <<>>, Chars("123e4567-e89b-12d3-a456-426614174000"),
      Chars("123E4567-E89B-12D3-A456-426614174000"),
      Chars("../../etc/passwd"), Repeat("a", 35), Repeat("a", 37), Repeat("g", 36) }

ProcessIdSamples == HandlePids \cup {MAX_PROCESS_ID}

TitleSamples == SampleTitles \cup {<<>>, Chars("delete"), Chars("quit"), Chars("a,b"), Chars("a,c")}

\* names and values of the variables of process.env
EnvNames ==
    { "PATH", "HOME", "ELECTRON_ENABLE_LOGGING", "AWS_SECRET_ACCESS_KEY", "LD_PRELOAD" }
EnvValues == {"0", "x"}
Envs == UNION {[S -> EnvValues] : S \in SUBSET EnvNames}

NoMachine == [homeDir |-> <<>>, cwd |-> <<>>]

ValidatorCall(op, input, machine) ==
    [op |-> op, phase |-> "input", input |-> input, machine |-> machine,
     out |-> ThrownAt(0, <<>>)]

ValidatorCalls ==
    {ValidatorCall("validateKeys", keys, NoMachine) : keys \in KeySeqs}
    \cup {ValidatorCall("validateInstanceId", id, NoMachine) : id \in InstanceIdSamples}
    \cup {ValidatorCall("validateProcessId", processId, NoMachine) :
            processId \in ProcessIdSamples}
    \cup {ValidatorCall("sanitizeTitle", title, NoMachine) : title \in TitleSamples}
    \cup {ValidatorCall("validatePath", path, NoMachine) : path \in Paths}
    \cup {ValidatorCall("validateWorkspacePath", path, machine) :
            path \in Paths, machine \in Machines}
    \cup {ValidatorCall("createSafeEnvironment", env, NoMachine) : env \in Envs}

\* a validator is about to be called
InitValidate ==
    /\ inst = [i \in AllIds |-> NoInst]
    /\ instances = {}
    /\ cmd = NoCmd
    /\ ev = NoEv
    /\ retry = NoRetry
    /\ race = NoRace
    /\ wm = NoWm
    /\ desk = NoDesk
    /\ kb = NoKb
    /\ call \in ValidatorCalls

Validated(out) ==
    /\ call.phase = "input"
    /\ call' = [call EXCEPT !.phase = "done", !.out = out]
    /\ UNCHANGED <<inst, instances, cmd, ev, retry, race, wm, desk, kb>>

ValidateKeys == call.op = "validateKeys" /\ Validated(validateKeysResult(call.input))

ValidateInstanceId ==
    call.op = "validateInstanceId" /\ Validated(validateInstanceIdResult(call.input))

ValidateProcessId ==
    /\ call.op = "validateProcessId"
    /\ LET r == validateProcessId(call.input) IN
       Validated(IF r.ok THEN ReturnedValue(r.value)
                 ELSE ThrownAt(76, Chars(r.error)))

SanitizeTitleCall ==
    /\ call.op = "sanitizeTitle"
    /\ LET r == sanitizeTitle(call.input) IN
       Validated(IF r.ok THEN ReturnedValue(r.value)
                 ELSE ThrownAt(sanitizeTitleLine(call.input), Chars(r.error)))

ValidatePath ==
    call.op = "validatePath" /\ Validated(validatePath(call.input, Chars("Directory path")))

ValidateWorkspacePath ==
    /\ call.op = "validateWorkspacePath"
    /\ Validated(validateWorkspacePath(call.input, call.machine.homeDir, call.machine.cwd))

CreateSafeEnvironment ==
    /\ call.op = "createSafeEnvironment"
    /\ Validated(ReturnedValue(createSafeEnvironment(call.input)))

\* ------------------------------------------------- InputAutomationService
\* the upper-case letter of each lower-case letter
UpperOf ==
    [c \in Range(LowerCase) |-> UpperCase[CHOOSE k \in 1..26 : LowerCase[k] = c]]

\* String.prototype.toUpperCase
toUpperCase(str) ==
    SubSeq([i \in 1..Len(str) |->
               IF str[i] \in DOMAIN UpperOf THEN UpperOf[str[i]] ELSE str[i]],
           1, Len(str))

\* keyMap of getKeyCode: key name, member of the Key enumeration
keyMap ==
    { <<Chars("control"), "LeftControl">>, <<Chars("ctrl"), "LeftControl">>,
      <<Chars("shift"), "LeftShift">>, <<Chars("alt"), "LeftAlt">>,
      <<Chars("command"), "LeftCmd">>, <<Chars("cmd"), "LeftCmd">>,
      <<Chars("enter"), "Enter">>, <<Chars("return"), "Return">>,
      <<Chars("tab"), "Tab">>, <<Chars("escape"), "Escape">>,
      <<Chars("esc"), "Escape">>, <<Chars("backspace"), "Backspace">>,
      <<Chars("delete"), "Delete">>, <<Chars("space"), "Space">>,
      <<Chars("up"), "Up">>, <<Chars("down"), "Down">>, <<Chars("left"), "Left">>,
      <<Chars("right"), "Right">> }

\* getKeyCode(key): the member of Key the name stands for, or else the name
\* in upper case, a string that is handed on as if it were a member of Key
getKeyCode(key) ==
    LET hits == {pair \in keyMap : pair[1] = toLowerCase(key)} IN
    IF hits # {}
    THEN [enum |-> TRUE, name |-> Chars((CHOOSE pair \in hits : TRUE)[2])]
    ELSE [enum |-> FALSE, name |-> toUpperCase(key)]

\* the key codes sendKeys treats as modifiers
ModifierCodes ==
    {[enum |-> TRUE, name |-> Chars(m)] :
        m \in {"LeftControl", "LeftShift", "LeftAlt", "LeftCmd"}}

\* the calls of sendKeys that may overlap; call c is for the window of
\* instance c
Callers == {1, 2}

NoCode == [enum |-> FALSE, name |-> <<>>]

NoSendKeys ==
    [via |-> "none", keys |-> <<>>, pc |-> "idle", idx |-> 0, code |-> NoCode,
     visited |-> 0, reused |-> FALSE, settle |-> "none", error |-> "-",
     ops |-> <<>>]

NoInjection == [op |-> "none", call |-> 0, code |-> NoCode, focus |-> 0, by |-> 0]

\* the service after construction, with the keyboard at rest
KbIdle ==
    [op |-> "sendKeys", focus |-> 0, modifierKeys |-> <<>>,
     held |-> [c \in Callers |-> {}],
     calls |-> [c \in Callers |-> NoSendKeys], last |-> NoInjection]

\* the key sequences that are sent
SentKeys ==
    { <<Chars("invalid_key")>>, <<Chars("enter")>>,
      <<Chars("control"), Chars("enter")>>,
      <<Chars("ctrl"), Chars("shift"), Chars("p")>>,
      <<Chars("a"), Chars("shift"), Chars("Shift"), Chars("b")>> }

\* what the keyboard of the library does with a key code: a member of Key is
\* injected, a string that is no member is ignored or refused; each call may
\* fail in the library
KeyboardOutcomes(code) ==
    IF code.enum THEN {"ok", "rejected"} ELSE {"ignored", "rejected"}

\* the calls that hold the key down
Holders(held, code) == {c \in Callers : code \in held[c]}

\* keyboard.pressKey or keyboard.releaseKey of call r has returned: ops is the
\* list of these calls
Did(r, op) == [r EXCEPT !.ops = Append(r.ops, [op |-> op, code |-> r.code])]

\* sendKeys has left its loops: modifierKeys.clear() and the promise resolves
Resolved(r) == [r EXCEPT !.pc = "done", !.settle = "resolved"]

RECURSIVE Advance(_, _, _, _)
\* sendKeys of call c from entry r.idx of its keys up to its next await: a
\* modifier found in modifierKeys is skipped; after the last entry the first
\* held modifier is released, or the call ends when there is none
Advance(c, r, modifierKeys, held) ==
    IF r.idx > Len(r.keys)
    THEN IF Len(modifierKeys) = 0 THEN Resolved(r)
         ELSE [r EXCEPT !.pc = "releaseModifier", !.code = modifierKeys[1],
                        !.visited = 1]
    ELSE LET keyCode == getKeyCode(r.keys[r.idx]) IN
         IF keyCode \notin ModifierCodes
         THEN [r EXCEPT !.pc = "pressKey", !.code = keyCode]
         ELSE IF keyCode \notin Range(modifierKeys)
         THEN [r EXCEPT !.pc = "pressModifier", !.code = keyCode]
         ELSE Advance(c,
                      [r EXCEPT !.idx = r.idx + 1,
                                !.reused = r.reused \/ Holders(held, keyCode) # {c}],
                      modifierKeys, held)

\* inputService.sendKeys(keys) is called directly
ServiceSendKeys(c, keys) ==
    /\ kb.calls[c].via = "none"
    /\ kb' = [kb EXCEPT
                !.calls[c] = Advance(c, [NoSendKeys EXCEPT !.via = "service",
                                                            !.keys = keys, !.idx = 1],
                                     kb.modifierKeys, kb.held),
                !.last = NoInjection]
    /\ UNCHANGED <<inst, instances, cmd, ev, retry, race, wm, desk, call>>

\* BaseWindowManager.sendKeys(windowInfo, keys) is called for the window of
\* instance c, as sendKeyToInstance does: focusWindow(windowInfo) is pending
ManagerSendKeys(c, keys) ==
    /\ kb.calls[c].via = "none"
    /\ kb' = [kb EXCEPT
                !.calls[c] = [NoSendKeys EXCEPT !.via = "manager", !.keys = keys,
                                                !.idx = 1, !.pc = "focusWindow"],
                !.last = NoInjection]
    /\ UNCHANGED <<inst, instances, cmd, ev, retry, race, wm, desk, call>>

\* an error leaves sendKeys: the service passes the error of the library on,
\* the catch block of BaseWindowManager.sendKeys wraps what it catches
Throws(r) ==
    [r EXCEPT !.pc = "done", !.settle = "rejected",
              !.error = IF r.via = "manager" THEN "InputAutomationError" ELSE "Error"]

\* focusWindow(windowInfo) returns and its result is not looked at
FocusDone_ignoresResult(c, focused) ==
    /\ kb.calls[c].pc = "focusWindow"
    /\ kb' = [kb EXCEPT !.focus = IF focused THEN c ELSE @,
                        !.calls[c] = Advance(c, kb.calls[c], kb.modifierKeys, kb.held),
                        !.last = NoInjection]
    /\ UNCHANGED <<inst, instances, cmd, ev, retry, race, wm, desk, call>>

\* focusWindow(windowInfo) of call c returns
FocusDone(c, focused) ==
    /\ kb.calls[c].pc = "focusWindow"
    /\ kb' = IF focused
             THEN [kb EXCEPT !.focus = c,
                             !.calls[c] = Advance(c, kb.calls[c], kb.modifierKeys, kb.held),
                             !.last = NoInjection]
             ELSE [kb EXCEPT !.calls[c] = Throws(kb.calls[c]), !.last = NoInjection]
    /\ UNCHANGED <<inst, instances, cmd, ev, retry, race, wm, desk, call>>

\* the key event the keyboard injects when a pressKey or releaseKey completes
Injection(c, op, outcome) ==
    IF outcome # "ok" THEN NoInjection
    ELSE [op |-> op, call |-> c, code |-> kb.calls[c].code, focus |-> kb.focus,
          by |-> IF op = "press" THEN c
                 ELSE IF c \in Holders(kb.held, kb.calls[c].code) THEN c
                 ELSE IF Holders(kb.held, kb.calls[c].code) = {} THEN 0
                 ELSE CHOOSE d \in Holders(kb.held, kb.calls[c].code) : TRUE]

\* keyboard.pressKey(keyCode) of a modifier completes: the key goes into
\* modifierKeys and the loop goes on
PressModifierDone(c, outcome) ==
    /\ kb.calls[c].pc = "pressModifier"
    /\ outcome \in KeyboardOutcomes(kb.calls[c].code)
    /\ LET r == kb.calls[c]
           modifierKeys == IF r.code \in Range(kb.modifierKeys) THEN kb.modifierKeys
                           ELSE Append(kb.modifierKeys, r.code)
           held == [kb.held EXCEPT ![c] = @ \cup {r.code}]
       IN kb' = IF outcome = "rejected"
                THEN [kb EXCEPT !.calls[c] = Throws(r), !.last = NoInjection]
                ELSE [kb EXCEPT
                        !.modifierKeys = modifierKeys,
                        !.held = held,
                        !.calls[c] = Advance(c, [Did(r, "press") EXCEPT !.idx = r.idx + 1],
                                             modifierKeys, held),
                        !.last = Injection(c, "press", outcome)]
    /\ UNCHANGED <<inst, instances, cmd, ev, retry, race, wm, desk, call>>

\* the regular key is pressed and the loop goes on without releaseKey
PressKeyDone_noRelease(c, outcome) ==
    /\ kb.calls[c].pc = "pressKey"
    /\ outcome \in KeyboardOutcomes(kb.calls[c].code)
    /\ LET r == kb.calls[c] IN
       kb' = IF outcome = "rejected"
             THEN [kb EXCEPT !.calls[c] = Throws(r), !.last = NoInjection]
             ELSE [kb EXCEPT
                     !.held[c] = IF outcome = "ok" THEN @ \cup {r.code} ELSE @,
                     !.calls[c] = Advance(c, [Did(r, "press") EXCEPT !.idx = r.idx + 1],
                                          kb.modifierKeys, kb.held),
                     !.last = Injection(c, "press", outcome)]
    /\ UNCHANGED <<inst, instances, cmd, ev, retry, race, wm, desk, call>>

\* keyboard.pressKey(keyCode) of a regular key completes: releaseKey is next
PressKeyDone(c, outcome) ==
    /\ kb.calls[c].pc = "pressKey"
    /\ outcome \in KeyboardOutcomes(kb.calls[c].code)
    /\ LET r == kb.calls[c] IN
       kb' = IF outcome = "rejected"
             THEN [kb EXCEPT !.calls[c] = Throws(r), !.last = NoInjection]
             ELSE [kb EXCEPT
                     !.held[c] = IF outcome = "ok" THEN @ \cup {r.code} ELSE @,
                     !.calls[c] = [Did(r, "press") EXCEPT !.pc = "releaseKey"],
                     !.last = Injection(c, "press", outcome)]
    /\ UNCHANGED <<inst, instances, cmd, ev, retry, race, wm, desk, call>>

\* keyboard.releaseKey(keyCode) of a regular key completes: the next entry
ReleaseKeyDone(c, outcome) ==
    /\ kb.calls[c].pc = "releaseKey"
    /\ outcome \in KeyboardOutcomes(kb.calls[c].code)
    /\ LET r == kb.calls[c] IN
       kb' = IF outcome = "rejected"
             THEN [kb EXCEPT !.calls[c] = Throws(r), !.last = NoInjection]
             ELSE [kb EXCEPT
                     !.held = [d \in Callers |->
                                  IF outcome = "ok" THEN kb.held[d] \ {r.code}
                                  ELSE kb.held[d]],
                     !.calls[c] = Advance(c, [Did(r, "release") EXCEPT !.idx = r.idx + 1],
                                          kb.modifierKeys, kb.held),
                     !.last = Injection(c, "release", outcome)]
    /\ UNCHANGED <<inst, instances, cmd, ev, retry, race, wm, desk, call>>

\* keyboard.releaseKey(modifierKey) of the second loop completes: the
\* iterator of modifierKeys gives the next key, or the set is cleared, which
\* sends the iterators of the other calls back to the start of the empty set
ReleaseModifierDone(c, outcome) ==
    /\ kb.calls[c].pc = "releaseModifier"
    /\ outcome \in KeyboardOutcomes(kb.calls[c].code)
    /\ LET r == kb.calls[c]
           held == [d \in Callers |-> kb.held[d] \ {r.code}]
       IN kb' = IF outcome = "rejected"
                THEN [kb EXCEPT !.calls[c] = Throws(r), !.last = NoInjection]
                ELSE IF r.visited < Len(kb.modifierKeys)
                THEN [kb EXCEPT
                        !.held = held,
                        !.calls[c] = [Did(r, "release")
                                        EXCEPT !.code = kb.modifierKeys[r.visited + 1],
                                               !.visited = r.visited + 1],
                        !.last = Injection(c, "release", outcome)]
                ELSE [kb EXCEPT
                        !.held = held,
                        !.modifierKeys = <<>>,
                        !.calls = [d \in Callers |->
                                      IF d = c THEN Resolved(Did(r, "release"))
                                      ELSE [kb.calls[d] EXCEPT !.visited = 0]],
                        !.last = Injection(c, "release", outcome)]
    /\ UNCHANGED <<inst, instances, cmd, ev, retry, race, wm, desk, call>>

\* the input service is constructed, no call was made
InitInput ==
    /\ inst = [i \in AllIds |-> NoInst]
    /\ instances = {}
    /\ cmd = NoCmd
    /\ ev = NoEv
    /\ retry = NoRetry
    /\ race = NoRace
    /\ wm = NoWm
    /\ desk = NoDesk
    /\ call = NoCall
    /\ kb = KbIdle

\* ------------------------------------------------ window info conversion
\* the bounds active-win reports for a window
BoundsSamples ==
    { [x |-> 0, y |-> 0, width |-> 800, height |-> 600],
      [x |-> 10, y |-> 20, width |-> 800, height |-> 600] }

\* activeWin.Result: what active-win reports for the window that has the focus
ActiveWinResults ==
    { [title |-> title, owner |-> [processId |-> p], bounds |-> b] :
          title \in {Chars("Cursor"), Chars("main.ts - Cursor")},
          p \in Pids, b \in BoundsSamples }

\* no entry in windowCache; no WindowInfo
NoInfo ==
    [id |-> 0, title |-> <<>>, processId |-> 0,
     bounds |-> [x |-> 0, y |-> 0, width |-> 0, height |-> 0]]

\* what activeWin.activeWindow() does: it gives a window, gives nothing, or
\* throws
ActiveWinOutcomes == {"window", "none", "throws"}

\* convertToWindowInfo(activeWindow): the WindowInfo it returns and the
\* windowCache it leaves
convertToWindowInfo(windowCache, activeWindow) ==
    LET cached == windowCache[activeWindow.owner.processId]
        windowInfo == [id |-> activeWindow.owner.processId,
                       title |-> activeWindow.title,
                       processId |-> activeWindow.owner.processId,
                       bounds |-> [x |-> activeWindow.bounds.x,
                                   y |-> activeWindow.bounds.y,
                                   width |-> activeWindow.bounds.width,
                                   height |-> activeWindow.bounds.height]]
    IN IF cached # NoInfo
       THEN [ret |-> cached, windowCache |-> windowCache]
       ELSE [ret |-> windowInfo,
             windowCache |-> [windowCache EXCEPT
                                 ![activeWindow.owner.processId] = windowInfo]]

\* the window manager after construction: windowCache is empty
InitCache ==
    /\ inst = [i \in AllIds |-> NoInst]
    /\ instances = {}
    /\ cmd = NoCmd
    /\ ev = NoEv
    /\ retry = NoRetry
    /\ race = NoRace
    /\ desk = NoDesk
    /\ call = NoCall
    /\ kb = NoKb
    /\ wm = [op |-> "constructor", windowCache |-> [p \in Pids |-> NoInfo],
             outcome |-> "-", reported |-> NoInfo, ret |-> <<>>]

\* getActiveWindow(): null unless activeWin.activeWindow() gives a window;
\* reported is what the operating system said in this call
getActiveWindow(outcome, activeWindow) ==
    /\ wm.op \in {"constructor", "getActiveWindow", "getAllWindows"}
    /\ wm' = IF outcome # "window"
             THEN [wm EXCEPT !.op = "getActiveWindow", !.outcome = outcome,
                             !.reported = NoInfo, !.ret = <<>>]
             ELSE LET r == convertToWindowInfo(wm.windowCache, activeWindow)
                      reported == [id |-> activeWindow.owner.processId,
                                   title |-> activeWindow.title,
                                   processId |-> activeWindow.owner.processId,
                                   bounds |-> activeWindow.bounds]
                  IN [op |-> "getActiveWindow", windowCache |-> r.windowCache,
                      outcome |-> outcome, reported |-> reported, ret |-> <<r.ret>>]
    /\ UNCHANGED <<inst, instances, cmd, ev, retry, race, desk, call, kb>>

\* WindowsWindowManager.getAllWindows(): the list with the active window, or
\* the empty list
WindowsGetAllWindows(outcome, activeWindow) ==
    /\ wm.op \in {"constructor", "getActiveWindow", "getAllWindows"}
    /\ wm' = IF outcome # "window"
             THEN [wm EXCEPT !.op = "getAllWindows", !.outcome = outcome,
                             !.reported = NoInfo, !.ret = <<>>]
             ELSE LET r == convertToWindowInfo(wm.windowCache, activeWindow)
                      reported == [id |-> activeWindow.owner.processId,
                                   title |-> activeWindow.title,
                                   processId |-> activeWindow.owner.processId,
                                   bounds |-> activeWindow.bounds]
                  IN [op |-> "getAllWindows", windowCache |-> r.windowCache,
                      outcome |-> outcome, reported |-> reported, ret |-> <<r.ret>>]
    /\ UNCHANGED <<inst, instances, cmd, ev, retry, race, desk, call, kb>>

\* ------------------------------------------------------- specifications
\* one instance after the other from an empty map, with every callback but
\* the stderr handler
Next ==
    \/ \E wp \in WorkspacePaths : CreateSpawn(Ids, wp)
    \/ \E wp \in WorkspacePaths : CreateSpawnError(Ids, wp)
    \/ \E wp \in WorkspacePaths, exeFound \in BOOLEAN : CreateInvalid(wp, exeFound)
    \/ \E id \in Ids : PollFound(id)
    \/ \E id \in Ids : PollMiss(id)
    \/ \E id \in Ids : CheckWindow(id)
    \/ \E id \in Ids, code \in ExitCodes : ProcExit(id, code)
    \/ \E id \in Ids \cup {0} : remove(id)
    \/ \E id \in Ids : KillTimer(id)
    \/ cleanup

Spec == Init /\ [][Next]_vars

\* the same with timers that fire and window queries that return; a process
\* exits when it will, not because it was sent SIGTERM
SpecFair ==
    /\ Init
    /\ [][Next]_vars
    /\ \A id \in Ids : WF_vars(CheckWindow(id))
    /\ \A id \in Ids : WF_vars(PollFound(id) \/ PollMiss(id))
    /\ \A id \in Ids : WF_vars(KillTimer(id))

\* processes that write to stderr while the first window query is under way
\* or after it returned
NextStderr ==
    \/ \E wp \in WorkspacePaths : CreateSpawn(Ids, wp)
    \/ \E id \in Ids : PollFound(id)
    \/ \E id \in Ids, code \in ExitCodes : ProcExit(id, code)
    \/ \E id \in Ids, kind \in StderrKinds, len \in ChunkLens : Stderr(id, kind, len)
    \/ \E id \in Ids \cup {0} : remove(id)
    \/ \E id \in Ids : KillTimer(id)

SpecStderr == Init /\ [][NextStderr]_vars

\* a full map; one of its instances and the new ones go on
NextLimit ==
    \/ CreateLimit
    \/ \E wp \in WorkspacePaths : CreateSpawn(Ids, wp)
    \/ \E wp \in WorkspacePaths : CreateSpawnError(Ids, wp)
    \/ \E wp \in WorkspacePaths, exeFound \in BOOLEAN : CreateInvalid(wp, exeFound)
    \/ \E id \in Ids : PollFound(id)
    \/ \E id \in Ids \cup {Old}, code \in ExitCodes : ProcExit(id, code)
    \/ \E id \in Ids \cup {0, Old} : remove(id)
    \/ \E id \in Ids \cup {Old} : KillTimer(id)
    \/ cleanup

SpecLimit == InitLimit /\ [][NextLimit]_vars

\* commands sent to instances in every phase of their life
NextCmd ==
    \/ \E wp \in WorkspacePaths : CreateSpawn(Ids, wp)
    \/ \E id \in Ids : PollFound(id)
    \/ \E id \in Ids, code \in ExitCodes : ProcExit(id, code)
    \/ \E id \in Ids \cup {0} : remove(id)
    \/ \E id \in Ids : KillTimer(id)
    \/ \E id \in Ids \cup {0}, keys \in KeyInputs : sendKeyToInstance(id, keys)
    \/ \E id \in Ids \cup {0}, platform \in Platforms : openCommandPalette(id, platform)
    \/ \E id \in Ids \cup {0}, platform \in Platforms : openClineTab(id, platform)
    \/ \E outcome \in SendOutcomes : SendKeysDone(outcome)
    \/ ClineTimer

SpecCmd == Init /\ [][NextCmd]_vars

\* openCommandPalette and openClineTab on an instance that create() returned,
\* while its process may exit and remove() may be called
NextCline ==
    \/ \E id \in {0, Old}, platform \in Platforms : openCommandPalette(id, platform)
    \/ \E id \in {0, Old}, platform \in Platforms : openClineTab(id, platform)
    \/ \E outcome \in SendOutcomes : SendKeysDone(outcome)
    \/ ClineTimer
    \/ \E code \in ExitCodes : ProcExit(Old, code)
    \/ remove(Old)
    \/ KillTimer(Old)

SpecCline == InitLimit /\ [][NextCline]_vars


\* the retry and timeout wrappers of WindowsApiService, one call of each
NextApi ==
    \/ \E fails \in 0..MaxFails, title \in HandleTitles, requireFocus \in BOOLEAN :
          withRetry(fails, title, requireFocus)
    \/ RetryFocusDone
    \/ RetryOperationDone
    \/ RetryTimer
    \/ withTimeout
    \/ RaceTimer
    \/ \E result \in {"fulfilled", "rejected"} : RaceOperationDone(result)

SpecApi == Init /\ [][NextApi]_vars


\* sanitizeTitle on every short title and on the sample titles
NextTitle ==
    \/ SanitizeTitle
    \/ SanitizeAgain

SpecTitle == InitTitle /\ [][NextTitle]_vars


\* window manager calls of the three variants on a desktop that changes
NextWindow ==
    \/ \E p \in Pids, open \in BOOLEAN, title \in DeskTitles :
          DeskWindow(p, [open |-> open, title |-> title])
    \/ \E p \in Pids \cup {0} : DeskFocus(p)
    \/ \E platform \in Platforms, pid \in HandlePids, queryOk \in BOOLEAN :
          \E title \in TitlesFor(platform) :
              IsWindowResponding(platform, Handle(pid, title), queryOk)
    \/ \E pid \in HandlePids, title \in HandleTitleSeqs :
          ApiRespondingCall(Handle(pid, title))
    \/ \E platform \in Platforms, pid \in HandlePids :
          \E title \in TitlesFor(platform) : FocusWindow(platform, Handle(pid, title))
    \/ \E pid \in HandlePids, title \in HandleTitleSeqs : CloseWindow(Handle(pid, title))
    \/ \E script \in RawScripts : SecureExec(script)
    \/ \E result \in ScriptResults : MacScriptDone(result)
    \/ \E ok \in BOOLEAN : LinuxActivate(ok)
    \/ \E queryOk \in BOOLEAN : FocusVerify(queryOk)
    \/ \E queryOk \in BOOLEAN : WinQuery(queryOk)
    \/ \E sendOk \in BOOLEAN, queryOk \in BOOLEAN, next \in Pids \cup {0} :
          WinChord(sendOk, queryOk, next)

SpecWindow == Init /\ [][NextWindow]_vars

\* calls of the validators on the inputs of InitValidate
NextValidate ==
    \/ ValidateKeys
    \/ ValidateInstanceId
    \/ ValidateProcessId
    \/ SanitizeTitleCall
    \/ ValidatePath
    \/ ValidateWorkspacePath
    \/ CreateSafeEnvironment

SpecValidate == InitValidate /\ [][NextValidate]_vars

\* sendKeys calls of the input service, made directly or by the window
\* manager for the windows of two instances, with their awaits interleaved
NextInput ==
    \/ \E c \in Callers, keys \in SentKeys : ServiceSendKeys(c, keys)
    \/ \E c \in Callers, keys \in SentKeys : ManagerSendKeys(c, keys)
    \/ \E c \in Callers, focused \in BOOLEAN : FocusDone(c, focused)
    \/ \E c \in Callers, outcome \in {"ok", "ignored", "rejected"} :
          PressModifierDone(c, outcome)
    \/ \E c \in Callers, outcome \in {"ok", "ignored", "rejected"} :
          PressKeyDone(c, outcome)
    \/ \E c \in Callers, outcome \in {"ok", "ignored", "rejected"} :
          ReleaseKeyDone(c, outcome)
    \/ \E c \in Callers, outcome \in {"ok", "ignored", "rejected"} :
          ReleaseModifierDone(c, outcome)

SpecInput == InitInput /\ [][NextInput]_vars

\* calls of getActiveWindow and of the Windows getAllWindows on one window
\* manager, while the windows change between the calls
NextCache ==
    \/ \E outcome \in ActiveWinOutcomes, activeWindow \in ActiveWinResults :
          getActiveWindow(outcome, activeWindow)
    \/ \E outcome \in ActiveWinOutcomes, activeWindow \in ActiveWinResults :
          WindowsGetAllWindows(outcome, activeWindow)

SpecCache == InitCache /\ [][NextCache]_vars

\* --------------------------------------------------------------- claims
Terminated(id) == inst[id].proc # "running" \/ inst[id].killed

\* C1: create() rejects when the map holds MAX_INSTANCES entries, and a
\* rejection raised before the spawn step (limit, workspace path, executable
\* path) spawns no process and leaves the instance map as it was.
C1_RejectionBeforeSpawn ==
    [][ev'.op = "create" =>
          /\ Cardinality(instances) >= MAX_INSTANCES =>
                ev'.settle = "rejected" /\ ev'.msg = "limit"
          /\ ev'.msg \in {"limit", "invalidPath", "noExecutable"} =>
                /\ ev'.settle = "rejected"
                /\ instances' = instances
                /\ inst' = inst
      ]_vars

\* a create() call was just rejected because the map is full
C1_Witness ==
    /\ ev.op = "create"
    /\ ev.msg = "limit"
    /\ Cardinality(instances) = MAX_INSTANCES

\* C2: on every failure of create() after the spawn, the process has been
\* terminated (signalled or exited) and the record removed from the map
\* when the error reaches the caller.
C2_TornDownOnFailure ==
    (ev.settle = "rejected" /\
     ev.msg \in {"spawnError", "exitNoWindow", "exitCode", "missingModule", "maxAttempts"})
        => ev.id \notin instances /\ Terminated(ev.id)

\* C3: whenever create() resolves, the returned instance is active, has a
\* window and is in the map under its id.
C3_ResolvedInstanceIsLive ==
    (ev.op = "pollFound" /\ ev.settle = "resolved")
        => /\ inst[ev.id].isActive
           /\ inst[ev.id].window # 0
           /\ ev.id \in instances

C5_ForceKillAfterGrace ==
    (ev.op = "killTimer" /\ inst[ev.id].proc = "running")
        => <<ev.id, "SIGKILL">> \in ev.sent

\* C6: a failure inside sendKeyToInstance or openCommandPalette reaches the
\* caller only after MAX_RETRIES attempts.
C6_RetriedBeforeSurfacing ==
    (/\ ev.op \in {"sendKeyToInstance", "openCommandPalette"}
     /\ ev.settle = "rejected"
     /\ ev.msg = "InputAutomationError")
        => ev.n = MAX_RETRIES

\* C7: the window manager's sendKeys is never invoked for an id that is not
\* in the map, for an inactive instance, or for one without a window.
C7_SendKeysOnlyToLiveInstance ==
    ev.invoked =>
        /\ ev.id \in instances
        /\ inst[ev.id].isActive
        /\ inst[ev.id].window # 0

\* C8: remove(id) returns true iff id is in the map; afterwards get(id) is
\* undefined and every other entry is unchanged; a remove of an id that is
\* malformed, was never created, was removed before or whose process exited
\* returns false, sends no signal and changes nothing.
C8_RemoveResult ==
    [][\A id \in AllIds \cup {0} :
        (ev'.op = "remove" /\ ev'.id = id) =>
          /\ (ev'.ret = "true") <=> (id \in instances)
          /\ ev'.ret \in {"true", "false"}
          /\ instances' = instances \ {id}
          /\ get(id)' = undefined
          /\ \A j \in AllIds \ {id} : inst'[j] = inst[j]
          /\ (id = 0 \/ (id # 0 /\ inst[id].proc \in {"none", "exited"}) \/ id \notin instances)
                => /\ ev'.ret = "false"
                   /\ ev'.sent = {}
                   /\ inst' = inst
                   /\ instances' = instances
      ]_vars

\* remove(id) of an instance that an earlier remove(id) took out of the map
\* just returned false, with other instances in the map
C8_Witness ==
    /\ ev.op = "remove"
    /\ ev.ret = "false"
    /\ ev.id # 0
    /\ inst[ev.id].killed
    /\ Cardinality(instances) >= 2

\* C9: when the process of an instance exits, the instance is inactive and
\* out of the map from then on, get(id) is undefined and commands on the id
\* fail; a pending create() is rejected, with the "window was not created"
\* message for exit code 0 and otherwise with the exit-code message carrying
\* at most 500 characters of stderr.
C9_ExitDeactivates ==
    [][\A id \in AllIds :
          inst'[id].proc = "exited" =>
              /\ ~inst'[id].isActive
              /\ id \notin instances'
              /\ get(id)' = undefined
              /\ WindowCheck(id)' # "ok"
              /\ (inst[id].proc = "running" /\ inst[id].promise = "pending") =>
                    /\ ev'.op = "exit" /\ ev'.id = id /\ ev'.settle = "rejected"
                    /\ ev'.code = "0" => ev'.msg = "exitNoWindow"
                    /\ ev'.code # "0" =>
                          /\ ev'.msg = "exitCode"
                          /\ ev'.n <= 500
                          /\ ev'.n <= inst[id].errLen
                          /\ inst[id].errLen <= 500 => ev'.n = inst[id].errLen
      ]_vars

\* a pending create() was just rejected by an exit with a nonzero code, its
\* message carrying the first 500 of more captured characters
C9_Witness ==
    /\ ev.op = "exit"
    /\ ev.settle = "rejected"
    /\ ev.msg = "exitCode"
    /\ ev.n = 500
    /\ inst[ev.id].errLen > 500
    /\ get(ev.id) = undefined

C11_RetryUntilSuccess ==
    /\ retry.calls <= MAX_RETRIES
    /\ retry.ret = "returned" => retry.phase = "done" /\ retry.calls = retry.fails + 1
    /\ (/\ ApiIsWindowResponding(retry)
        /\ retry.fails < MAX_RETRIES
        /\ retry.phase = "done")
          => retry.ret = "returned" /\ retry.calls = retry.fails + 1

\* an operation that failed twice has just succeeded at the third invocation
C11_Witness ==
    /\ retry.phase = "done"
    /\ retry.ret = "returned"
    /\ retry.fails = 2
    /\ retry.calls = 3

\* C12: withTimeout settles once: with the operation's own outcome if the
\* operation settles before the timer fires, with the timeout error otherwise;
\* a result that arrives after the timer fired is discarded and changes
\* nothing, and the operation is not cancelled by the timeout.
C12_RaceSettlesOnce ==
    [][/\ race.outcome # "none" => race'.outcome = race.outcome
       /\ (race.timer = "armed" /\ race.op = "pending" /\ race'.op = "fulfilled")
             => race'.outcome = "value"
       /\ (race.timer = "armed" /\ race.op = "pending" /\ race'.op = "rejected")
             => race'.outcome = "error"
       /\ (race.op = "pending" /\ race.timer = "armed" /\ race'.timer = "fired")
             => race'.outcome = "timeout" /\ race'.op = "pending"
       /\ (race.timer = "fired" /\ race.op = "pending" /\ race'.op # "pending")
             => race'.outcome = "timeout" /\ race'.late = race.late + 1
      ]_vars

\* the operation fulfilled after the timeout error was delivered
C12_Witness ==
    /\ race.outcome = "timeout"
    /\ race.op = "fulfilled"
    /\ race.late = 1

\* a and b are the same letter in either case, or the same character
SameLetter(a, b) ==
    \/ a = b
    \/ \E k \in 1..26 : {a, b} = {UpperCase[k], LowerCase[k]}

\* the title contains the phrase in some letter case
HasPhrase(title, phrase) ==
    \E i \in 1..Len(title) :
        /\ i + Len(phrase) - 1 <= Len(title)
        /\ \A j \in 1..Len(phrase) : SameLetter(title[i + j - 1], phrase[j])

Blocklisted(title) == \E k \in 1..Len(dangerous) : HasPhrase(title, dangerousChars[k])

ExampleTitle == Chars("proj\"; do shell script \"rm -rf /\"; tell app \"")

\* C18: sanitizeTitle fails for every title that contains one of the
\* blocklisted phrases in any letter case.
C18_BlocklistedRejected ==
    (wm.op = "sanitizeTitle" /\ wm.phase # "input" /\ Blocklisted(wm.title))
        => ~wm.out.ok

\* the example title of the documentation was just rejected for its phrase
C18_Witness ==
    /\ wm.op = "sanitizeTitle"
    /\ wm.phase = "once"
    /\ wm.title = ExampleTitle
    /\ wm.out = Thrown("Title contains forbidden sequence: do shell script")

ControlChars == {"NUL", "SOH", "ESC", "\n", "\r", "\t"}

\* C19: sanitizeTitle rejects every title that contains a raw control
\* character (NUL, 0x01, ESC, newline, carriage return, tab) with the
\* 'invalid characters' error.
C19_ControlCharsRejected ==
    (/\ wm.op = "sanitizeTitle"
     /\ wm.phase # "input"
     /\ Len(wm.title) <= MAX_TITLE_LENGTH
     /\ Range(wm.title) \cap ControlChars # {})
        => wm.out = Thrown("Title contains invalid characters")

\* C20: for every title that sanitizeTitle accepts, sanitizeTitle applied to
\* its output succeeds and returns that output unchanged.
C20_EscapeIdempotent ==
    (wm.op = "sanitizeTitle" /\ wm.phase = "twice") => wm.again = wm.out

\* a lookup made now finds a window of the handle's process with a title
FoundWithTitle(platform, queryOk, windowInfo) ==
    \E w \in getAllWindows(platform, queryOk) :
        w.processId = windowInfo.processId /\ Len(w.title) > 0

\* C13: isWindowResponding(handle) returns true iff a fresh lookup of the
\* handle's process id finds a window whose title is nonempty.
C13_RespondingIffFreshTitle ==
    [][/\ (wm.phase = "idle" /\ wm'.op = "isWindowResponding") =>
             (wm'.ret = "true" <=> FoundWithTitle(wm'.platform, wm'.queried, wm'.handle))
       /\ (wm.phase = "idle" /\ wm'.op = "apiIsWindowResponding") =>
             (wm'.ret = "true" <=> FoundWithTitle("linux", TRUE, wm'.handle))
      ]_vars

\* C14: sendKeyToInstance, openCommandPalette, openClineTab and the window
\* manager's sendKeys call isWindowResponding on the stored handle before
\* they focus the window or inject input.
C14_LivenessReverified ==
    ev.invoked =>
        \E i \in DOMAIN ev.calls :
            /\ ev.calls[i] = "isWindowResponding"
            /\ \A j \in 1..(i - 1) : ev.calls[j] # "focusWindow"

InvalidHandle(windowInfo) ==
    ~sanitizeTitle(windowInfo.title).ok \/ ~validateProcessId(windowInfo.processId).ok

\* C16: MacOSWindowManager.focusWindow and closeWindow, given a handle whose
\* title fails sanitizeTitle or whose process id fails validateProcessId,
\* throw the validation error instead of returning a value.
C16_InvalidHandleThrows ==
    (/\ wm.op \in {"focusWindow", "closeWindow"}
     /\ wm.platform = "darwin"
     /\ wm.phase = "done"
     /\ InvalidHandle(wm.handle))
        => wm.threw /\ wm.ret = "-"

\* C17: focusWindow and closeWindow of MacOSWindowManager run osascript only
\* after validateProcessId and sanitizeTitle succeeded on the handle, with
\* the sanitizer's output as the title in the script; secureExecAppleScript
\* runs no script that matches one of its dangerous patterns.
C17_OnlySanitizedScriptsRun ==
    /\ \A i \in DOMAIN wm.scripts :
          LET script == wm.scripts[i] IN
          /\ ~DangerousScript(script.text)
          /\ script.context \in {"focusWindow", "closeWindow"} =>
                /\ ~InvalidHandle(wm.handle)
                /\ script.text = ScriptText(script.context, wm.handle.processId,
                                            sanitizeTitle(wm.handle.title).value)
    /\ wm.error = "Script contains forbidden operations" => wm.scripts = <<>>

\* osascript runs the focus script for a title whose quote was escaped
C17_Witness ==
    /\ wm.op = "focusWindow"
    /\ wm.handle.title = Chars("a\"b")
    /\ Len(wm.scripts) = 1
    /\ includes(wm.scripts[1].text, Chars("contains \"a\\\"b\" then"))

\* the backslashes that stand directly before position i of str
BackslashesBefore(str, i) ==
    CHOOSE n \in 0..(i - 1) :
        /\ \A k \in (i - n)..(i - 1) : str[k] = "\\"
        /\ (n < i - 1 => str[i - n - 1] # "\\")

\* C21: the output of sanitizeTitle cannot end the double-quoted AppleScript
\* literal it is put into: each double quote in it follows an odd number of
\* backslashes, and it does not end in an unescaped backslash.
C21_QuotesStayEscaped ==
    (wm.op = "sanitizeTitle" /\ wm.phase # "input" /\ wm.out.ok) =>
        \E out \in {wm.out.value} :
            /\ \A i \in 1..Len(out) :
                  out[i] = "\"" => BackslashesBefore(out, i) % 2 = 1
            /\ BackslashesBefore(out, Len(out) + 1) % 2 = 0

\* a title of a backslash, a quote and a backslash was escaped
C21_Witness ==
    /\ wm.op = "sanitizeTitle"
    /\ wm.phase = "once"
    /\ wm.title = <<"\\", "\"", "\\">>
    /\ wm.out = Returned(<<"\\", "\\", "\\", "\"", "\\", "\\">>)

\* the keys with a name
NamedKeys == InnerNames \cup {RightName}

\* an entry that is one allowed character or a named key
WellFormedKey(key) ==
    \/ Len(key) = 1 /\ key[1] \in ClassChars
    \/ key \in NamedKeys

\* C22: validateKeys fails for a key sequence that is empty, has more than 50
\* entries, or has an entry that is longer than 20 characters or is neither
\* one allowed character nor a named key (for one, 'invalid_key').
C22_MalformedKeysRejected ==
    (call.op = "validateKeys" /\ call.phase = "done") =>
        \E keys \in {call.input} :
            ( \/ Len(keys) = 0
              \/ Len(keys) > 50
              \/ \E k \in 1..Len(keys) : Len(keys[k]) > 20 \/ ~WellFormedKey(keys[k]) )
            => ~call.out.ok

\* the validators that reject input for the sake of security
SecurityValidators ==
    {"sanitizeTitle", "validateProcessId", "validatePath", "validateWorkspacePath",
     "validateKeys", "validateInstanceId"}

\* the value a rejected call was given, as the characters it is written with
RawValue(c) ==
    IF c.op = "validateKeys"
    THEN (IF c.out.line \in {66, 70} THEN FirstFailing(c.input) ELSE <<>>)
    ELSE IF c.op = "validateProcessId" THEN Chars(ToString(c.input))
    ELSE c.input

\* what the validator of call c does with sample inputs
PeerResults(c) ==
    IF c.op = "validateKeys" THEN {validateKeysResult(<<key>>) : key \in KeySamples}
    ELSE IF c.op = "validateProcessId"
    THEN {[ok |-> validateProcessId(processId).ok, line |-> 76,
           error |-> Chars(validateProcessId(processId).error)] :
             processId \in ProcessIdSamples}
    ELSE IF c.op = "sanitizeTitle"
    THEN {[ok |-> sanitizeTitle(title).ok, line |-> sanitizeTitleLine(title),
           error |-> Chars(sanitizeTitle(title).error)] : title \in TitleSamples}
    ELSE IF c.op = "validateInstanceId"
    THEN {validateInstanceIdResult(id) : id \in InstanceIdSamples}
    ELSE IF c.op = "validatePath"
    THEN {validatePath(path, Chars("Directory path")) : path \in SamplePaths}
    ELSE {validateWorkspacePath(path, c.machine.homeDir, c.machine.cwd) :
             path \in SamplePaths}

\* C23: the error of a failed security validation does not contain the value
\* that failed, and two inputs that a validator rejects at the same check get
\* the same message.
C23_ErrorsHideInput ==
    (call.op \in SecurityValidators /\ call.phase = "done" /\ ~call.out.ok) =>
        /\ Len(RawValue(call)) > 0 => ~includes(call.out.error, RawValue(call))
        /\ \A peer \in PeerResults(call) :
              (~peer.ok /\ peer.line = call.out.line) => peer.error = call.out.error

\* a path validatePath has to reject
Unacceptable(path) ==
    \/ Len(path) = 0
    \/ Len(path) > 1000
    \/ \E i \in 1..Len(path) :
          path[i] \notin Range(LowerCase) \cup Range(UpperCase)
                           \cup Range(Chars("0123456789-_./\\:")) \cup WhiteSpace
    \/ includes(normalize(path), <<".", ".">>)
    \/ \E forbidden \in FORBIDDEN_PATHS :
          startsWith(toLowerCase(normalize(path)), toLowerCase(forbidden))

\* C24: validatePath fails for a path that is empty, longer than 1000
\* characters, has a character outside the allowed set, or whose normalized
\* form contains '..' or starts, in any case of the letters, with a forbidden
\* prefix; when it succeeds it returns the normalized path.
C24_ValidatePath ==
    (call.op = "validatePath" /\ call.phase = "done") =>
        /\ Unacceptable(call.input) => ~call.out.ok
        /\ call.out.ok => call.out.value = normalize(call.input)

\* //etc was rejected for the forbidden directory its normalized form names
C24_Witness ==
    /\ call.op = "validatePath"
    /\ call.phase = "done"
    /\ call.input = Chars("//etc")
    /\ normalize(call.input) = Chars("/etc")
    /\ call.out = ThrownAt(45, Chars("Directory path accesses forbidden system directory"))

\* path is the directory dir or lies below it
Under(path, dir) == path = dir \/ startsWith(path, dir \o <<"/">>)

\* C25: validateWorkspacePath accepts a path only when its resolved absolute
\* form is the home directory, an allow-listed root, or a descendant of one
\* of them.
C25_WorkspaceUnderRoots ==
    (call.op = "validateWorkspacePath" /\ call.phase = "done" /\ call.out.ok) =>
        \E resolved \in {resolve(call.out.value, call.machine.cwd)} :
            \/ Under(resolved, resolve(call.machine.homeDir, call.machine.cwd))
            \/ \E root \in allowedRoots :
                  Under(toLowerCase(resolved), toLowerCase(root))

\* two environments with the same allow-listed variables
AgreeOnSafeKeys(env, other) ==
    /\ DOMAIN env \cap SAFE_ENV_KEYS = DOMAIN other \cap SAFE_ENV_KEYS
    /\ \A key \in DOMAIN env \cap SAFE_ENV_KEYS : env[key] = other[key]

\* C26: the environment given to spawn has allow-listed variables only, with
\* ELECTRON_ENABLE_LOGGING and ELECTRON_ENABLE_STACK_DUMPING set to '1', and
\* is the same for two ambient environments that agree on the allow-listed
\* variables.
C26_SpawnEnvironment ==
    (call.op = "createSafeEnvironment" /\ call.phase = "done") =>
        /\ DOMAIN call.out.value \subseteq SAFE_ENV_KEYS
        /\ call.out.value["ELECTRON_ENABLE_LOGGING"] = "1"
        /\ call.out.value["ELECTRON_ENABLE_STACK_DUMPING"] = "1"
        /\ \A other \in Envs :
              AgreeOnSafeKeys(call.input, other)
                  => createSafeEnvironment(other) = call.out.value

\* an environment with a secret and a logging switch set to 0 was filtered
C26_Witness ==
    /\ call.op = "createSafeEnvironment"
    /\ call.phase = "done"
    /\ call.input = [key \in {"PATH", "AWS_SECRET_ACCESS_KEY", "ELECTRON_ENABLE_LOGGING"} |->
                        IF key = "PATH" THEN "x" ELSE "0"]
    /\ DOMAIN call.out.value =
          {"PATH", "ELECTRON_ENABLE_LOGGING", "ELECTRON_ENABLE_STACK_DUMPING"}
    /\ call.out.value["PATH"] = "x"

\* a call of sendKeys has a key that is a name and is not in keyMap
HasUnknownKey(r) ==
    \E k \in 1..Len(r.keys) : Len(r.keys[k]) > 1 /\ ~getKeyCode(r.keys[k]).enum

\* C27: InputAutomationService.sendKeys called with a key name that is no
\* recognised key, such as 'invalid_key', rejects with an InputAutomationError.
C27_UnknownKeyRejected ==
    \A c \in Callers :
        (kb.op = "sendKeys" /\ kb.calls[c].via = "service" /\ kb.calls[c].pc = "done"
            /\ HasUnknownKey(kb.calls[c]))
        => kb.calls[c].settle = "rejected" /\ kb.calls[c].error = "InputAutomationError"

\* C28: sendKeys calls of the window manager for the windows of two
\* instances do not disturb each other: a key of a call is injected while the
\* window of that call has the focus, a key is released by the call that
\* pressed it, and no call takes a modifier that another call holds for one
\* of its own.
C28_CallsIndependent ==
    (kb.op = "sendKeys" /\ \A c \in Callers : kb.calls[c].via \in {"none", "manager"}) =>
        /\ kb.last.op \in {"press", "release"} => kb.last.focus = kb.last.call
        /\ kb.last.op = "release" => kb.last.by = kb.last.call
        /\ \A c \in Callers : ~kb.calls[c].reused

\* C29: whatever the interleaving of create() calls with remove(), cleanup()
\* and process events, the instance map holds at most MAX_INSTANCES entries,
\* the instances that wait for their window included.
C29_MapBounded == Cardinality(instances) <= MAX_INSTANCES

\* the map is full, one of its instances waits for its window, and a further
\* create() was rejected
C29_Witness ==
    /\ Cardinality(instances) = MAX_INSTANCES
    /\ \E id \in instances : inst[id].promise = "pending"
    /\ ev.op = "create"
    /\ ev.msg = "limit"

\* the window poll of instance id in one step: at most maxAttempts
\* invocations of findWindowByProcessId, the first by create(), each later
\* one by the timer that a failed invocation set, none after the poll stopped
\* and none after an invocation returned a window
PollingDiscipline(id) ==
    /\ inst'[id].attempts < maxAttempts
    /\ (ev'.op = "pollMiss" /\ ev'.id = id) => ev'.n <= maxAttempts
    /\ (inst'[id].poll = "inflight" /\ inst[id].poll # "inflight") =>
          \/ inst[id].poll = "none" /\ ev'.op = "create"
          \/ inst[id].poll = "timer" /\ ev'.op = "checkWindow"
    /\ (inst'[id].poll = "timer" /\ inst[id].poll # "timer") =>
          inst[id].poll = "inflight" /\ ev'.op = "pollMiss" /\ ev'.id = id
    /\ inst[id].poll = "stopped" => inst'[id].poll = "stopped"
    /\ (ev'.op = "pollFound" /\ ev'.id = id) => inst'[id].poll = "stopped"

\* C30 (as stated): one create() invokes findWindowByProcessId at most 10
\* times, each invocation after the first by the 500 ms timer of the failed
\* one before it; polling stops at the first window found, and when all 10
\* invocations fail create() rejects with 'Failed to find Cursor window after
\* maximum attempts'.
C30_PollingBounded ==
    [][\A id \in Ids :
          /\ PollingDiscipline(id)
          /\ (ev'.op = "pollMiss" /\ ev'.id = id /\ ev'.n = maxAttempts) =>
                ev'.settle = "rejected" /\ ev'.msg = "maxAttempts"
      ]_vars

\* C30 (amended): as above, but the tenth failure rejects create() with the
\* maximum-attempts error only while create() is pending; a create() that a
\* process event has rejected before keeps the error of that event.
C30_PollingBoundedWhilePending ==
    [][\A id \in Ids :
          /\ PollingDiscipline(id)
          /\ (ev'.op = "pollMiss" /\ ev'.id = id /\ ev'.n = maxAttempts) =>
                IF inst[id].promise = "pending"
                THEN ev'.settle = "rejected" /\ ev'.msg = "maxAttempts"
                ELSE ev'.settle = "none" /\ inst'[id].promise = "settled"
      ]_vars

\* the tenth invocation failed and create() was rejected for it
C30_Witness ==
    /\ ev.op = "pollMiss"
    /\ ev.n = maxAttempts
    /\ ev.settle = "rejected"
    /\ ev.msg = "maxAttempts"
    /\ inst[ev.id].poll = "stopped"

\* C31: a create() call that has spawned a process settles in the end, when
\* timers fire and callbacks run, also when remove() or cleanup() marks the
\* instance inactive during the window poll and the process does not exit on
\* SIGTERM.
C31_CreateSettles ==
    \A id \in Ids : (inst[id].promise = "pending") ~> (inst[id].promise = "settled")

\* a child process that runs and is not inside the grace period that follows
\* a SIGTERM
Alive(id) ==
    /\ inst[id].proc = "running"
    /\ ~(inst[id].killed /\ inst[id].killTimer = "pending")

\* C32: at most MAX_INSTANCES child processes spawned by create() run at a
\* time: a process whose record has left the map does not keep running
\* beyond the grace period of its termination.
C32_ProcessesBounded ==
    Cardinality({id \in AllIds : Alive(id)}) <= MAX_INSTANCES

\* C33: an attempt of withRetry in which the window does not respond fails
\* without invoking the operation; against a window that never responds
\* withRetry fails after MAX_RETRIES tests of isWindowResponding and no
\* invocation; with requireFocus the operation is invoked in an attempt only
\* after focusWindow returned in that attempt.
C33_OperationGuarded ==
    [][/\ ~ApiIsWindowResponding(retry') => retry'.calls = 0
       /\ (~ApiIsWindowResponding(retry') /\ retry'.phase = "done") =>
             /\ retry'.ret = "thrown"
             /\ retry'.lastError = "Window is not responding"
             /\ retry'.attempt = MAX_RETRIES
       /\ (retry'.requireFocus /\ retry'.calls > retry.calls) =>
             retry.phase = "focus" /\ retry'.attempt = retry.attempt
       /\ (retry'.phase = "operation" /\ retry.phase # "operation") =>
             retry'.calls = retry.calls + 1
      ]_vars

\* withRetry gave up on a window that never responded
C33_Witness ==
    /\ retry.phase = "done"
    /\ retry.title = ""
    /\ retry.ret = "thrown"
    /\ retry.attempt = MAX_RETRIES
    /\ retry.calls = 0

\* C34: when all MAX_RETRIES attempts of withRetry fail it throws the error
\* of the last attempt, having waited RETRY_DELAY after each attempt but the
\* last.
C34_LastErrorThrown ==
    /\ retry.delays < MAX_RETRIES
    /\ (retry.phase = "done" /\ retry.ret = "thrown") =>
          /\ retry.attempt = MAX_RETRIES
          /\ retry.errorAt = MAX_RETRIES
          /\ retry.delays = MAX_RETRIES - 1

\* the operation failed in each attempt and withRetry has thrown
C34_Witness ==
    /\ retry.phase = "done"
    /\ retry.ret = "thrown"
    /\ retry.lastError = "operation failed"
    /\ retry.calls = MAX_RETRIES
    /\ retry.delays = 2

C36_ScriptStaysQuoted ==
    \A k \in 1..Len(wm.scripts) :
        wm.scripts[k].context \in {"focusWindow", "closeWindow"} =>
            LET line == CommandLine(wm.scripts[k].text)
            IN SingleQuoteEnd(line, Len(Chars("osascript -e '"))) = Len(line)

\* the calls of windowManager.sendKeys that openClineTab makes after the
\* chord when none fails, and all its calls
CharacterCalls ==
    [k \in 1..Len(Chars("Cline: Open in New Tab")) |->
        <<<<Chars("Cline: Open in New Tab")[k]>>>>]
    \o <<<<Chars("enter")>>>>

ClineCalls(platform) == <<PaletteKeys(platform)>> \o CharacterCalls

\* log holds the first calls of openClineTab in their order, and each call
\* but the last has returned without an error
ClineOrder(log, platform) ==
    /\ Len(log) <= Len(ClineCalls(platform))
    /\ \A k \in 1..Len(log) : log[k].keys = ClineCalls(platform)[k]
    /\ \A k \in 1..(Len(log) - 1) : log[k].outcome = "ok"

\* C37: openClineTab calls sendKeys of the window manager with the chord of
\* the command palette (command on darwin, control elsewhere, then shift and
\* p), then with each character of 'Cline: Open in New Tab' in the order of
\* the text, then with enter; a call is made only when all calls before it
\* returned without an error, and openClineTab resolves only after all 24.
C37_ClineCallsInOrder ==
    /\ cmd.op = "openClineTab" =>
          /\ Len(cmd.log) >= 1
          /\ ClineOrder(cmd.log, cmd.platform)
          /\ cmd.phase \in {"palette", "char", "enter"} <=>
                cmd.log[Len(cmd.log)].outcome = "pending"
          /\ cmd.phase \in {"settle", "charWait"} =>
                cmd.log[Len(cmd.log)].outcome = "ok"
    /\ (ev.op = "openClineTab" /\ ev.settle = "rejected"
          /\ ev.msg \in {"InputAutomationError", "invalidCharacter"}) =>
          /\ cmd.op = "none"
          /\ \E platform \in Platforms : ClineOrder(ev.log, platform)
          /\ ev.msg = "InputAutomationError" /\ ev.log[Len(ev.log)].outcome # "ok"
    /\ (ev.op = "openClineTab" /\ ev.settle = "resolved") =>
          /\ \E platform \in Platforms : ClineOrder(ev.log, platform)
          /\ Len(ev.log) = 24
          /\ ev.log[24].outcome = "ok"

\* openClineTab has resolved on darwin after the chord with command, the 22
\* characters and enter
C37_Witness ==
    /\ ev.op = "openClineTab"
    /\ ev.settle = "resolved"
    /\ Len(ev.log) = 24
    /\ ev.log[1].keys = <<Chars("command"), Chars("shift"), Chars("p")>>
    /\ ev.log[9].keys = <<<<"O">>>>
    /\ ev.log[24].keys = <<Chars("enter")>>

\* the key codes of a list of keys, and the test for a regular key
KeyCodes(keys) == [k \in 1..Len(keys) |-> getKeyCode(keys[k])]

IsRegular(code) == code \notin ModifierCodes

IsRegularOp(o) == IsRegular(o.code)

\* the calls of pressKey and releaseKey for the regular keys of a list
RegularOps(keys) ==
    LET regular == SelectSeq(KeyCodes(keys), IsRegular)
    IN [j \in 1..(2 * Len(regular)) |->
           [op |-> IF j % 2 = 1 THEN "press" ELSE "release",
            code |-> regular[(j + 1) \div 2]]]

\* the keyboard calls of a completed sendKeys call r are those of its list:
\* one press and one release for each modifier of the list, the press at the
\* place of its first entry among the regular keys and the release after all
\* presses and all regular keys; press and release of each regular key in the
\* order of the list
KeysInOrder(r) ==
    LET codes == KeyCodes(r.keys)
        ops == r.ops
        At(op, code) == {i \in 1..Len(ops) : ops[i] = [op |-> op, code |-> code]}
        first(m) == CHOOSE k \in 1..Len(codes) :
                        codes[k] = m /\ \A j \in 1..(k - 1) : codes[j] # m
        regularBefore(k) == Cardinality({j \in 1..(k - 1) : IsRegular(codes[j])})
    IN /\ SelectSeq(ops, IsRegularOp) = RegularOps(r.keys)
       /\ \A i \in 1..Len(ops) : ~IsRegular(ops[i].code) => ops[i].code \in Range(codes)
       /\ \A m \in Range(codes) \cap ModifierCodes :
             /\ Cardinality(At("press", m)) = 1
             /\ Cardinality(At("release", m)) = 1
             /\ \A i \in At("press", m) :
                   Cardinality({j \in 1..(i - 1) : IsRegular(ops[j].code)})
                       = 2 * regularBefore(first(m))
             /\ \A i \in At("release", m), j \in 1..Len(ops) :
                   (IsRegular(ops[j].code) \/ ops[j].op = "press") => j < i

\* C38: a sendKeys call of the input service that is the only call made and
\* in which no keyboard call fails presses each modifier of its list once,
\* before the regular keys that follow it in the list, presses and releases
\* each regular key in the order of the list, and releases each modifier once
\* after the last key.
C38_SingleCallSequence ==
    \A c \in Callers :
        (/\ kb.op = "sendKeys"
         /\ kb.calls[c].settle = "resolved"
         /\ \A d \in Callers \ {c} : kb.calls[d].via = "none")
        => KeysInOrder(kb.calls[c])

\* the only call was made with a, shift, Shift, b and has returned
C38_Witness ==
    /\ kb.op = "sendKeys"
    /\ kb.calls[1].via = "service"
    /\ kb.calls[1].keys = <<Chars("a"), Chars("shift"), Chars("Shift"), Chars("b")>>
    /\ kb.calls[1].settle = "resolved"
    /\ Len(kb.calls[1].ops) = 6
    /\ kb.calls[2].via = "none"

\* C39: whenever no sendKeys call of the input service is in progress, after
\* calls that returned and after calls that failed alike, modifierKeys is
\* empty and no modifier key is held down.
C39_NoModifierLeftHeld ==
    (kb.op = "sendKeys" /\ \A c \in Callers : kb.calls[c].pc \in {"idle", "done"}) =>
        /\ kb.modifierKeys = <<>>
        /\ \A c \in Callers : kb.held[c] \cap ModifierCodes = {}

\* C40: the WindowInfo that getActiveWindow returns, and the one in the list
\* of the Windows getAllWindows, has the title and the bounds that the
\* operating system reported in that call, also for a process id that an
\* earlier call has seen with another title or position.
C40_ReportsCurrentWindow ==
    (wm.op \in {"getActiveWindow", "getAllWindows"} /\ Len(wm.ret) = 1) =>
        /\ wm.ret[1].processId = wm.reported.processId
        /\ wm.ret[1].title = wm.reported.title
        /\ wm.ret[1].bounds = wm.reported.bounds

====
